---- MODULE Spec2Model ----
(***************************************************************************)
(* Model of the LOCO protocol engine (KakaoProtocolEngine v31.3):          *)
(*   BinaryUtils, LOCOPacketCodec, PacketInterceptor, ProtocolHookManager. *)
(*                                                                         *)
(* Three specifications share this module:                                 *)
(*   SpecCodec        the pure codec functions applied to drawn inputs     *)
(*   SpecInterceptor  one PacketInterceptor instance and its subscribers   *)
(*   SpecHooks        one ProtocolHookManager instance                     *)
(*                                                                         *)
(* Representation choices                                                  *)
(*   - A Buffer is a record [pre, pad]: the bytes of pre followed by pad   *)
(*     zero bytes, kept canonical (pre never ends in a zero byte).  This   *)
(*     lets a body of 15 MiB be a value of the model.                      *)
(*   - A string is the sequence of its character codes ("MSG" is           *)
(*     <<77, 83, 71>>).                                                    *)
(*   - null / undefined are the records NULL / UNDEFINED.                  *)
(*   - Date.now() timestamps and console output are left out: no branch of *)
(*     the code reads them.                                                *)
(*   - TLC's integers are 32-bit signed, so drawn 32-bit wire fields keep  *)
(*     their top byte below 128.                                           *)
(***************************************************************************)
EXTENDS Integers, Sequences, FiniteSets, TLC

VARIABLES
    \* ---- SpecCodec: inputs drawn in Init, results of applying the codec
    cOp,            \* "decode" | "encode" | "safeSlice": which function the
                    \* input is for
    cBuffer,        \* decode's buffer argument
    cVerify,        \* decode's verifySignature / encode's signPacket argument
    cHeader,        \* encode's header argument
    cBody,          \* encode's body argument
    cDecoded,       \* PENDING, or decode(cBuffer, cVerify)
    cEncoded,       \* PENDING, or the outcome of encode(cHeader, cBody, cVerify),
                    \* or of encode(cDecoded.header, cDecoded.body)
    cRound,         \* PENDING, or decode(encode(cHeader, cBody))
    cPacket,        \* verifyPacketSignature's packet argument
    cSignature,     \* verifyPacketSignature's signature argument
    cVerified,      \* PENDING, or what verifyPacketSignature(cPacket, cSignature)
                    \* returned
    cStart,         \* safeSlice's start argument
    cEnd,           \* safeSlice's optional end argument
    cSliced,        \* PENDING, or the outcome of safeSlice(cBuffer, cStart, cEnd)
    \* ---- SpecInterceptor: the PacketInterceptor's fields
    packets,        \* private packets: InterceptedPacket[]
    maxPackets,     \* private maxPackets
    errorCount,     \* private errorCount
    tamperedCount,  \* private tamperedCount
    verifySignatures, \* private verifySignatures
    listeners,      \* EventEmitter's listener table
    ctorMaxPackets, \* the constructor's maxPackets argument
    calls,          \* number of intercept calls made so far
    arrivals,       \* the <<buffer, direction>> pairs intercepted since
                    \* construction or the last clear(), oldest first
    lastCall,       \* what the last call was, did and how it ended, and what
                    \* getStats() returns before and after it
    \* ---- SpecHooks: the ProtocolHookManager's fields
    hooks,          \* private hooks: Map<string, HookCallback[]>
    globalHooks,    \* private globalHooks: HookCallback[]
    nextId,         \* identity of the next callback to be registered
    lastTrigger,    \* what the last trigger / register call did, the registry
                    \* before it and getHookCount() after it
    \* ---- SpecCommand: CommandHandler, DatabaseManager, DataCollector
    adminConfig,    \* CommandHandler's adminConfig (Config.ADMIN_CONFIG)
    admins,         \* DatabaseManager's private admins
    bannedUsers,    \* DatabaseManager's private bannedUsers
    collected,      \* DataCollector's data: its six lists
    managed,        \* history: per user id, the last successful
                    \* 'admin add' / 'admin remove' command for it
    lastMessage     \* what the last handleMessage or database call was
                    \* given, answered and found before it

codecVars == <<cOp, cBuffer, cVerify, cHeader, cBody, cDecoded, cEncoded, cRound,
              cPacket, cSignature, cVerified, cStart, cEnd, cSliced>>
interceptorVars == <<packets, maxPackets, errorCount, tamperedCount,
                     verifySignatures, listeners, ctorMaxPackets, calls,
                     arrivals, lastCall>>
hookVars == <<hooks, globalHooks, nextId, lastTrigger>>
commandVars == <<adminConfig, admins, bannedUsers, collected, managed, lastMessage>>
vars == <<codecVars, interceptorVars, hookVars, commandVars>>

----------------------------------------------------------------------------
(* Values standing for JavaScript's null and undefined, and for "not yet". *)
NULL == [null |-> TRUE]
UNDEFINED == [undefined |-> TRUE]
PENDING == [pending |-> TRUE]

\* An optional argument: given with a value, or omitted.
Arg(v) == [given |-> TRUE, value |-> v]
NoArg == [given |-> FALSE, value |-> 0]

Min(a, b) == IF a < b THEN a ELSE b
Max(a, b) == IF a > b THEN a ELSE b

----------------------------------------------------------------------------
(* Buffers *)

RECURSIVE StripZeros(_)
StripZeros(s) ==
    IF s = <<>> \/ s[Len(s)] # 0 THEN s
    ELSE StripZeros(SubSeq(s, 1, Len(s) - 1))

\* The buffer holding the bytes of s followed by z zero bytes.
MkBuf(s, z) ==
    LET t == StripZeros(s) IN [pre |-> t, pad |-> z + (Len(s) - Len(t))]

Buf(s) == MkBuf(s, 0)

BufLen(b) == Len(b.pre) + b.pad

\* buffer[i], 0 <= i < buffer.length
ByteAt(b, i) == IF i < Len(b.pre) THEN b.pre[i + 1] ELSE 0

Zeros(n) == [i \in 1..n |-> 0]

\* The bytes of a (short) buffer as a sequence.
Bytes(b) == b.pre \o Zeros(b.pad)

\* a followed by b; a is short (a header).
BufConcat(a, b) == MkBuf(Bytes(a) \o b.pre, b.pad)

\* Buffer.prototype.slice(start, end): a negative index counts from the end,
\* both are clamped into [0, length], and end <= start gives the empty buffer.
BufferSliceIndex(b, i) ==
    IF i < 0 THEN Max(BufLen(b) + i, 0) ELSE Min(i, BufLen(b))

BufferSlice(b, start, end) ==
    LET s == BufferSliceIndex(b, start)
        e == BufferSliceIndex(b, end)
        n == Len(b.pre)
    IN  IF e <= s THEN Buf(<<>>)
        ELSE MkBuf(SubSeq(b.pre, s + 1, Min(e, n)), Max(0, e - Max(s, n)))

\* BinaryUtils.safeSlice(buffer, start, end) with end given: the two indices
\* it hands to buffer.slice.
safeSliceRange(buffer, start, end) ==
    LET actualEnd == Min(end, BufLen(buffer))
        actualStart == Max(0, Min(start, BufLen(buffer)))
    IN  <<actualStart, actualEnd>>

\* A safeSlice that trusts the declared end: the missing bytes read as zero.
safeSlice_Unclamped(buffer, start, end) ==
    LET got == BufferSlice(buffer, start, end)
    IN  MkBuf(got.pre, got.pad + Max(0, (end - start) - BufLen(got)))

safeSlice(buffer, start, end) ==
    LET r == safeSliceRange(buffer, start, end)
    IN  BufferSlice(buffer, r[1], r[2])

\* BinaryUtils.safeSlice(buffer, start, end?): with end omitted actualEnd is
\* buffer.length.  No step of it raises.
safeSliceOptionalEnd(buffer, start, end) ==
    IF end.given THEN safeSlice(buffer, start, end.value)
    ELSE BufferSlice(buffer, Max(0, Min(start, BufLen(buffer))), BufLen(buffer))

----------------------------------------------------------------------------
(* Strings *)

\* Character codes of the method names used below.
MSG == <<77, 83, 71>>
READ == <<82, 69, 65, 68>>
L_LIST == <<76, 95, 76, 73, 83, 84>>
SYNCDLLINK_ == <<83, 89, 78, 67, 68, 76, 76, 73, 78, 75, 95>>
SYNCDLLINK_X == <<83, 89, 78, 67, 68, 76, 76, 73, 78, 75, 95, 88>>
msg_lower == <<109, 115, 103>>
M1 == <<77, 49>>

REPLACEMENT_CHAR == 65533

\* /^[A-Z_]+$/.test(method)
MethodRegexTest(method) ==
    /\ Len(method) >= 1
    /\ \A i \in 1..Len(method) : method[i] \in (65..90) \cup {95}

\* buffer.toString('utf8', start, end) for start, end within the buffer: an
\* ASCII byte is its character; a byte >= 0x80 is modelled as U+FFFD (each
\* drawn one is an invalid UTF-8 sequence).
toStringUtf8(buffer, start, end) ==
    [i \in 1..(end - start) |->
        LET byte == ByteAt(buffer, start + i - 1)
        IN  IF byte < 128 THEN byte ELSE REPLACEMENT_CHAR]

\* str.replace(/\0/g, ''): every NUL character is removed.
ReplaceNulls(str) == SelectSeq(str, LAMBDA c : c # 0)

\* buffer.toString('hex'): two digits per byte, an injective encoding.
toStringHex(buffer) == [hex |-> buffer]

----------------------------------------------------------------------------
(* LOCO_PROTOCOL and LOCOPacketCodec *)

HEADER_SIZE == 22
METHOD_SIZE == 11
\* A limit of 16 MiB.
MAX_BODY_SIZE_16MiB == 16 * 1024 * 1024

MAX_BODY_SIZE == 15 * 1024 * 1024
MIN_BODY_SIZE == 0
SIGNATURE_SECRET == "default-secret-change-me"

readUInt8(buffer, offset) == ByteAt(buffer, offset)

readUInt16LE(buffer, offset) ==
    ByteAt(buffer, offset) + 256 * ByteAt(buffer, offset + 1)

readInt16LE(buffer, offset) ==
    LET u == readUInt16LE(buffer, offset)
    IN  IF u >= 32768 THEN u - 65536 ELSE u

readUInt32LE(buffer, offset) ==
    readUInt16LE(buffer, offset) + 65536 * readUInt16LE(buffer, offset + 2)

\* The bytes writeUInt32LE / writeInt16LE store for an in-range value.
UInt32LEBytes(v) ==
    <<v % 256, (v \div 256) % 256, (v \div 65536) % 256, (v \div 16777216) % 256>>

Int16LEBytes(v) ==
    LET u == IF v < 0 THEN v + 65536 ELSE v
    IN  <<u % 256, (u \div 256) % 256>>

\* The value ranges outside which Buffer's write methods raise
\* ERR_OUT_OF_RANGE (2^32 - 1 is written as a quotient: TLC has 32-bit ints).
InUInt32(v) == v >= 0 /\ (v \div 65536) <= 65535
InInt16(v) == v >= -32768 /\ v <= 32767
InUInt8(v) == v >= 0 /\ v <= 255

\* SecurityManager.generateSignature(data, secret): a keyed MAC, taken to be
\* collision-free.
SecurityManager_generateSignature(data, secret) == [hmac |-> data, key |-> secret]

\* SecurityManager.verifySignature(data, signature, secret): recompute and
\* compare.
SecurityManager_verifySignature(data, signature, secret) ==
    SecurityManager_generateSignature(data, secret) = signature

generateSignature(data) ==
    SecurityManager_generateSignature(toStringHex(data), SIGNATURE_SECRET)

\* A verification that only looks for a signature on the packet.
verifyPacketSignature_PresenceOnly(packet, signature) ==
    packet.signature # UNDEFINED

\* A verification that skips the check for an attached signature.
verifyPacketSignature_SkipAbsent(packet, signature) ==
    SecurityManager_verifySignature(toStringHex(packet.body), signature,
                                    SIGNATURE_SECRET)

\* if (!packet.signature) return false; the signatures of the model are
\* undefined or a (non-empty) MAC.
verifyPacketSignature(packet, signature) ==
    IF packet.signature = UNDEFINED THEN FALSE
    ELSE SecurityManager_verifySignature(toStringHex(packet.body), signature,
                                         SIGNATURE_SECRET)

\* How a call that may raise ends.
Returned(v) == [threw |-> FALSE, value |-> v]
Thrown(e) == [threw |-> TRUE, error |-> e]

\* BSON.deserialize(body) returns rather than throws.  Of the bodies drawn
\* here only the empty document 05 00 00 00 00 is well-formed BSON.
BSONdeserializeAccepts(body) ==
    /\ BufLen(body) = 5
    /\ ByteAt(body, 0) = 5
    /\ \A i \in 1..4 : ByteAt(body, i) = 0

\* Lines 166-174 with the inner try/catch removed: the parser's exception
\* leaves the block.
deserializeBody_Propagate(body) ==
    IF BufLen(body) > 0
    THEN IF BSONdeserializeAccepts(body) THEN Returned([document |-> body])
         ELSE Thrown("not BSON")
    ELSE Returned(NULL)

\* Lines 166-174: data = null; if (body.length > 0) try { data =
\* BSON.deserialize(body) } catch { leave as null }.
deserializeBody(body) ==
    IF BufLen(body) > 0 /\ BSONdeserializeAccepts(body)
    THEN Returned([document |-> body])
    ELSE Returned(NULL)

\* decode(buffer, verifySignature); an exception raised inside the outer try
\* block is caught at lines 183-186 and null is returned.
decode(buffer, verifySignature) ==
    IF BufLen(buffer) < HEADER_SIZE THEN NULL
    ELSE
      LET packetId == readUInt32LE(buffer, 0)
          statusCode == readInt16LE(buffer, 4)
          method == ReplaceNulls(toStringUtf8(buffer, 6, 17))
          type == readUInt8(buffer, 17)
          bodyLength == readUInt32LE(buffer, 18)
      IN  IF bodyLength < MIN_BODY_SIZE \/ bodyLength > MAX_BODY_SIZE THEN NULL
          ELSE IF ~MethodRegexTest(method) THEN NULL
          ELSE
            LET body == safeSlice(buffer, HEADER_SIZE, HEADER_SIZE + bodyLength)
                signature ==
                    IF verifySignature
                    THEN generateSignature(
                             BufferSlice(buffer, 0, HEADER_SIZE + bodyLength))
                    ELSE UNDEFINED
                data == deserializeBody(body)
            IN  IF data.threw THEN NULL
                ELSE
                [header |-> [packetId |-> packetId, statusCode |-> statusCode,
                             method |-> method, type |-> type,
                             bodyLength |-> bodyLength],
                 body |-> body,
                 data |-> data.value,
                 signature |-> signature]

\* methodBuf = Buffer.alloc(11, 0); methodBuf.write(header.method, 0, 'utf8'):
\* the method's (ASCII) characters, cut to 11, zero-padded to 11 bytes.
methodBuf(method) ==
    [i \in 1..METHOD_SIZE |-> IF i <= Len(method) THEN method[i] ELSE 0]

\* The header bytes with the caller's header.bodyLength in the length field.
encodeHeader_DeclaredLength(header, body) ==
    UInt32LEBytes(header.packetId) \o Int16LEBytes(header.statusCode)
        \o methodBuf(header.method) \o <<header.type>>
        \o UInt32LEBytes(header.bodyLength)

encodeHeader(header, body) ==
    UInt32LEBytes(header.packetId) \o Int16LEBytes(header.statusCode)
        \o methodBuf(header.method) \o <<header.type>>
        \o UInt32LEBytes(BufLen(body))

\* An encode without the two checks of its arguments.
encode_Unchecked(header, body, signPacket) ==
    IF ~InUInt32(header.packetId) THEN Thrown("ERR_OUT_OF_RANGE")
    ELSE IF ~InInt16(header.statusCode) THEN Thrown("ERR_OUT_OF_RANGE")
    ELSE IF ~InUInt8(header.type) THEN Thrown("ERR_OUT_OF_RANGE")
    ELSE Returned(BufConcat(Buf(encodeHeader(header, body)), body))

\* An encode that puts a signature marker in front of a signed frame.
encode_EmbedSignature(header, body, signPacket) ==
    IF BufLen(body) > MAX_BODY_SIZE THEN Thrown("Body size exceeds maximum")
    ELSE IF ~MethodRegexTest(header.method) THEN Thrown("Invalid method name")
    ELSE IF ~InUInt32(header.packetId) THEN Thrown("ERR_OUT_OF_RANGE")
    ELSE IF ~InInt16(header.statusCode) THEN Thrown("ERR_OUT_OF_RANGE")
    ELSE IF ~InUInt8(header.type) THEN Thrown("ERR_OUT_OF_RANGE")
    ELSE IF signPacket
    THEN Returned(BufConcat(Buf(<<255>> \o encodeHeader(header, body)), body))
    ELSE Returned(BufConcat(Buf(encodeHeader(header, body)), body))

\* encode(header, body, signPacket).  With signPacket the signature of the
\* assembled frame is computed and logged (lines 214-217); the buffer
\* returned is the same.
encode(header, body, signPacket) ==
    IF BufLen(body) > MAX_BODY_SIZE THEN Thrown("Body size exceeds maximum")
    ELSE IF ~MethodRegexTest(header.method) THEN Thrown("Invalid method name")
    ELSE IF ~InUInt32(header.packetId) THEN Thrown("ERR_OUT_OF_RANGE")
    ELSE IF ~InInt16(header.statusCode) THEN Thrown("ERR_OUT_OF_RANGE")
    ELSE IF ~InUInt8(header.type) THEN Thrown("ERR_OUT_OF_RANGE")
    ELSE
      LET buffer == BufConcat(Buf(encodeHeader(header, body)), body)
          logged == IF signPacket THEN generateSignature(buffer) ELSE UNDEFINED
      IN  Returned(buffer)

----------------------------------------------------------------------------
(* SpecCodec: the codec applied to drawn inputs *)

\* Longest explicit (non-zero-run) part of a drawn body.
MaxTail == 2

TailBytes == {0, 5, 9}

RECURSIVE SeqsUpTo(_, _)
SeqsUpTo(S, n) ==
    IF n = 0 THEN {<<>>}
    ELSE LET shorter == SeqsUpTo(S, n - 1)
         IN  shorter \cup {Append(s, x) : s \in {t \in shorter : Len(t) = n - 1}, x \in S}

\* Bodies: a short explicit part, then a run of zero bytes whose length
\* reaches the 15 MiB limit.
TailPads == {0, 4, MAX_BODY_SIZE - 1, MAX_BODY_SIZE}
Tails == {MkBuf(s, z) : s \in SeqsUpTo(TailBytes, MaxTail), z \in TailPads}

\* The five header fields as they lie on the wire.
PacketIdFields == {<<1, 0, 0, 0>>, <<2, 1, 255, 127>>}
StatusFields == {<<0, 0>>, <<156, 255>>}
MethodFields ==
    { methodBuf(MSG), methodBuf(SYNCDLLINK_), methodBuf(<<>>),
      <<77, 0, 83, 71, 0, 0, 0, 0, 0, 0, 0>>,
      methodBuf(msg_lower),
      <<77, 200, 0, 0, 0, 0, 0, 0, 0, 0, 0>> }
TypeFields == {<<0>>, <<255>>}
LengthFields ==
    { <<0, 0, 0, 0>>, <<1, 0, 0, 0>>, <<2, 0, 0, 0>>, <<5, 0, 0, 0>>,
      <<0, 0, 240, 0>>, <<1, 0, 240, 0>>, <<0, 0, 0, 1>>, <<255, 255, 255, 127>> }

HeaderFields ==
    { p \o st \o m \o t \o l :
        p \in PacketIdFields, st \in StatusFields, m \in MethodFields,
        t \in TypeFields, l \in LengthFields }

Frames == {BufConcat(Buf(h), t) : h \in HeaderFields, t \in Tails}

\* Buffers shorter than a header: the first n bytes of a header.
Undersized == {Buf(SubSeq(h, 1, n)) : h \in HeaderFields, n \in {0, 1, 21}}

DecodeInputs == Frames \cup Undersized

\* encode's arguments; some lie outside the caller contract.
Methods == {MSG, L_LIST, SYNCDLLINK_, SYNCDLLINK_X, <<>>, msg_lower, M1}
Headers ==
    [ packetId : {0, 1, 2147418370, -1},
      statusCode : {0, -100, 32767, -32768, 32768},
      method : Methods,
      type : {0, 255, 256},
      bodyLength : {0, 1, 2} ]
Bodies == Tails

NoHeader == [packetId |-> 0, statusCode |-> 0, method |-> <<>>, type |-> 0,
             bodyLength |-> 0]

InitCodecDecode ==
    /\ cOp = "decode"
    /\ cBuffer \in DecodeInputs
    /\ cVerify \in BOOLEAN
    /\ cHeader = NoHeader
    /\ cBody = Buf(<<>>)
    /\ cStart = 0
    /\ cEnd = NoArg

InitCodecEncode ==
    /\ cOp = "encode"
    /\ cBuffer = Buf(<<>>)
    /\ cVerify \in BOOLEAN
    /\ cHeader \in Headers
    /\ cBody \in Bodies
    /\ cStart = 0
    /\ cEnd = NoArg

\* safeSlice's arguments: an empty and a three-byte buffer, indices from
\* below -length to above length, end given or omitted.
SliceBuffers == {Buf(<<>>), Buf(<<5, 9, 7>>)}
SliceIndices == -4..4

InitCodecSlice ==
    /\ cOp = "safeSlice"
    /\ cBuffer \in SliceBuffers
    /\ cVerify = FALSE
    /\ cHeader = NoHeader
    /\ cBody = Buf(<<>>)
    /\ cStart \in SliceIndices
    /\ cEnd \in {NoArg} \cup {Arg(e) : e \in SliceIndices}

InitCodec ==
    /\ InitCodecDecode \/ InitCodecEncode \/ InitCodecSlice
    /\ cSliced = PENDING
    /\ cDecoded = PENDING
    /\ cEncoded = PENDING
    /\ cRound = PENDING
    /\ cPacket = NULL
    /\ cSignature = UNDEFINED
    /\ cVerified = PENDING

\* The codec part of a specification that does not use the codec.
IdleCodec ==
    /\ cOp = "none"
    /\ cBuffer = Buf(<<>>)
    /\ cVerify = FALSE
    /\ cHeader = NoHeader
    /\ cBody = Buf(<<>>)
    /\ cDecoded = PENDING
    /\ cEncoded = PENDING
    /\ cRound = PENDING
    /\ cPacket = NULL
    /\ cSignature = UNDEFINED
    /\ cVerified = PENDING
    /\ cStart = 0
    /\ cEnd = NoArg
    /\ cSliced = PENDING

\* decode(cBuffer, cVerify)
Decode ==
    /\ cOp = "decode"
    /\ cDecoded = PENDING
    /\ cDecoded' = decode(cBuffer, cVerify)
    /\ UNCHANGED <<cOp, cBuffer, cVerify, cHeader, cBody, cEncoded, cRound>>
    /\ UNCHANGED <<cPacket, cSignature, cVerified, cStart, cEnd, cSliced>>
    /\ UNCHANGED <<interceptorVars, hookVars, commandVars>>

\* encode(cHeader, cBody, cVerify)
Encode ==
    /\ cOp = "encode"
    /\ cEncoded = PENDING
    /\ cEncoded' = encode(cHeader, cBody, cVerify)
    /\ UNCHANGED <<cOp, cBuffer, cVerify, cHeader, cBody, cDecoded, cRound>>
    /\ UNCHANGED <<cPacket, cSignature, cVerified, cStart, cEnd, cSliced>>
    /\ UNCHANGED <<interceptorVars, hookVars, commandVars>>

\* decode(encode(cHeader, cBody)), when encode returned
DecodeEncoded ==
    /\ cOp = "encode"
    /\ cEncoded # PENDING
    /\ ~cEncoded.threw
    /\ cRound = PENDING
    /\ cRound' = decode(cEncoded.value, cVerify)
    /\ UNCHANGED <<cOp, cBuffer, cVerify, cHeader, cBody, cDecoded, cEncoded>>
    /\ UNCHANGED <<cPacket, cSignature, cVerified, cStart, cEnd, cSliced>>
    /\ UNCHANGED <<interceptorVars, hookVars, commandVars>>

\* buffer[i] = v, 0 <= i < buffer.length
WithByte(b, i, v) ==
    IF i < Len(b.pre) THEN MkBuf([b.pre EXCEPT ![i + 1] = v], b.pad)
    ELSE MkBuf(b.pre \o Zeros(i - Len(b.pre)) \o <<v>>,
               b.pad - (i - Len(b.pre)) - 1)

\* Where, and by how much (mod 256), a caller changes one body byte of a
\* decoded packet before handing it to verifyPacketSignature.
TamperOffsets == {0, 1}
TamperDeltas == {1, 255}

\* The packets handed to verifyPacketSignature: the decoded packet as it is,
\* or with one body byte changed.
TamperedPackets(p) ==
    { [p EXCEPT !.body = WithByte(@, i, (ByteAt(@, i) + d) % 256)] :
        i \in {j \in TamperOffsets : j < BufLen(p.body)}, d \in TamperDeltas }

VerifyPackets(p) == {p} \cup TamperedPackets(p)

\* The signature decode attaches (or would attach) to the packet it makes
\* of buffer: the MAC of buffer[0 .. 22 + bodyLength).
CaptureSignature(buffer, p) ==
    generateSignature(BufferSlice(buffer, 0, HEADER_SIZE + p.header.bodyLength))

\* The signatures supplied to verifyPacketSignature: the one of capture, and
\* the MAC of the decoded body alone.
VerifySignatures(buffer, p) ==
    {CaptureSignature(buffer, p), generateSignature(p.body)}

\* verifyPacketSignature(packet, signature) on a packet decode returned
VerifyPacketSignature ==
    /\ cOp = "decode"
    /\ cDecoded # PENDING
    /\ cDecoded # NULL
    /\ cVerified = PENDING
    /\ cEncoded = PENDING
    /\ \E packet \in VerifyPackets(cDecoded),
          signature \in VerifySignatures(cBuffer, cDecoded) :
            /\ cPacket' = packet
            /\ cSignature' = signature
            /\ cVerified' = Returned(verifyPacketSignature(packet, signature))
    /\ UNCHANGED <<cOp, cBuffer, cVerify, cHeader, cBody, cDecoded, cEncoded, cRound>>
    /\ UNCHANGED <<cStart, cEnd, cSliced>>
    /\ UNCHANGED <<interceptorVars, hookVars, commandVars>>

\* encode(p.header, p.body) on the packet p that decode returned
ReEncode ==
    /\ cOp = "decode"
    /\ cDecoded # PENDING
    /\ cDecoded # NULL
    /\ cEncoded = PENDING
    /\ cVerified = PENDING
    /\ cEncoded' = encode(cDecoded.header, cDecoded.body, FALSE)
    /\ UNCHANGED <<cOp, cBuffer, cVerify, cHeader, cBody, cDecoded, cRound>>
    /\ UNCHANGED <<cPacket, cSignature, cVerified, cStart, cEnd, cSliced>>
    /\ UNCHANGED <<interceptorVars, hookVars, commandVars>>

\* BinaryUtils.safeSlice(cBuffer, cStart, cEnd)
SafeSlice ==
    /\ cOp = "safeSlice"
    /\ cSliced = PENDING
    /\ cSliced' = Returned(safeSliceOptionalEnd(cBuffer, cStart, cEnd))
    /\ UNCHANGED <<cOp, cBuffer, cVerify, cHeader, cBody, cDecoded, cEncoded, cRound>>
    /\ UNCHANGED <<cPacket, cSignature, cVerified, cStart, cEnd>>
    /\ UNCHANGED <<interceptorVars, hookVars, commandVars>>

NextCodec ==
    Decode \/ Encode \/ DecodeEncoded \/ VerifyPacketSignature \/ ReEncode
        \/ SafeSlice

----------------------------------------------------------------------------
(* PacketInterceptor *)

DEFAULT_MAX_PACKETS == 5000

\* constructor: if (verifySignatures !== undefined) this.verifySignatures =
\* verifySignatures; the field's default is false.
constructorVerifySignatures(arg) == IF arg.given THEN arg.value ELSE FALSE

\* constructor: if (maxPackets) this.maxPackets = maxPackets;
\* an omitted argument and 0 are both falsy and keep the field's default.
constructorMaxPackets(arg) ==
    IF arg.given /\ arg.value # 0 THEN arg.value ELSE DEFAULT_MAX_PACKETS

\* Event names: 'packet', 'error', and a decoded method name.
EvPacket == [kind |-> "packet", name |-> <<>>]
EvError == [kind |-> "error", name |-> <<>>]
EvMethod(m) == [kind |-> "method", name |-> m]

\* A subscriber either returns or raises.
ListenerKinds == {"ok", "throw"}

ListenersOf(table, ev) == IF ev \in DOMAIN table THEN table[ev] ELSE <<>>

\* Index of the first listener in l that raises, 0 if none.
FirstThrower(l) ==
    IF \E i \in 1..Len(l) : l[i] = "throw"
    THEN CHOOSE i \in 1..Len(l) : l[i] = "throw" /\ \A j \in 1..(i - 1) : l[j] # "throw"
    ELSE 0

\* EventEmitter.emit(ev, payload): the listeners run synchronously in
\* subscription order and a listener's exception leaves emit; 'error' emitted
\* with no listener raises its payload.
emit(table, ev) ==
    LET l == ListenersOf(table, ev)
        k == FirstThrower(l)
    IN  IF ev.kind = "error" /\ l = <<>> THEN [threw |-> TRUE, invoked |-> 0]
        ELSE IF k > 0 THEN [threw |-> TRUE, invoked |-> k]
        ELSE [threw |-> FALSE, invoked |-> Len(l)]

\* One emit call as the log records it: the event, its payload, how many
\* listeners ran, whether a listener raised, and the error count and history
\* at the moment of the call.
Emission(ev, payload, e, errors, history) ==
    [event |-> ev, payload |-> payload, invoked |-> e.invoked, threw |-> e.threw,
     errors |-> errors, history |-> history]

\* done with the emit call of ev (outcome e) added to its log.
logEmit(done, ev, payload, e) ==
    [done EXCEPT !.emitted = Append(@, Emission(ev, payload, e, done.errorCount,
                                                done.packets))]

\* A store that drops the incoming packet when the history is full.
store_EvictNewest(history, packet, cap) ==
    IF Len(history) + 1 > cap THEN history ELSE Append(history, packet)

\* this.packets.push(packet); if (length > maxPackets) this.packets.shift();
store(history, packet, cap) ==
    IF Len(history) + 1 > cap THEN Tail(Append(history, packet))
    ELSE Append(history, packet)

\* The catch block: this.errorCount++; this.emit('error', error).  done is the
\* effect of the try block up to the point that raised; emit('error') raising
\* in its turn leaves intercept.
interceptCatchEmit(counted, e) ==
    [logEmit(counted, EvError, [error |-> "raised"], e)
        EXCEPT !.outcome = IF e.threw THEN "threw" ELSE "returned"]

interceptCatch(done, table) ==
    interceptCatchEmit([done EXCEPT !.errorCount = @ + 1], emit(table, EvError))

\* Lines 290-301: the method-keyed event of a decoded packet, or the error
\* count of an undecoded one.
interceptMethodEmitted(logged, e, table) ==
    IF e.threw THEN interceptCatch(logged, table) ELSE logged

\* Lines 290-301 without the else branch's errorCount++.
interceptAfterPacket_NoCount(done, packet, table) ==
    IF packet.parsed # NULL
    THEN interceptMethodEmitted(
             logEmit(done, EvMethod(packet.parsed.header.method), packet,
                     emit(table, EvMethod(packet.parsed.header.method))),
             emit(table, EvMethod(packet.parsed.header.method)), table)
    ELSE done

interceptAfterPacket(done, packet, table) ==
    IF packet.parsed # NULL
    THEN interceptMethodEmitted(
             logEmit(done, EvMethod(packet.parsed.header.method), packet,
                     emit(table, EvMethod(packet.parsed.header.method))),
             emit(table, EvMethod(packet.parsed.header.method)), table)
    ELSE [done EXCEPT !.errorCount = @ + 1]

\* Line 288: this.emit('packet', packet).
interceptPacketEmitted(logged, e, packet, table) ==
    IF e.threw THEN interceptCatch(logged, table)
    ELSE interceptAfterPacket(logged, packet, table)

interceptEmit(done, packet, table) ==
    interceptPacketEmitted(logEmit(done, EvPacket, packet, emit(table, EvPacket)),
                           emit(table, EvPacket), packet, table)

\* A verification step that runs whether or not verification is enabled.
interceptVerified_Always(st, parsed) ==
    IF parsed # NULL
    THEN verifyPacketSignature(parsed, parsed.signature)
    ELSE TRUE

\* Lines 263-272: verified, and whether the tamper count goes up.
interceptVerified(st, parsed) ==
    IF st.verifySignatures /\ parsed # NULL /\ parsed.signature # UNDEFINED
    THEN verifyPacketSignature(parsed, parsed.signature)
    ELSE TRUE

\* A store whose eviction also restarts the two counters.
interceptStore_ResetOnEvict(st, packet) ==
    [packets |-> store(st.packets, packet, st.maxPackets),
     errorCount |-> IF Len(st.packets) + 1 > st.maxPackets THEN 0
                    ELSE st.errorCount,
     tamperedCount |-> IF Len(st.packets) + 1 > st.maxPackets THEN 0
                       ELSE IF packet.verified THEN st.tamperedCount
                       ELSE st.tamperedCount + 1,
     emitted |-> <<>>,
     outcome |-> "returned"]

\* Lines 274-286: the InterceptedPacket is built and stored.
interceptStore(st, packet) ==
    [packets |-> store(st.packets, packet, st.maxPackets),
     errorCount |-> st.errorCount,
     tamperedCount |-> IF packet.verified THEN st.tamperedCount
                       ELSE st.tamperedCount + 1,
     emitted |-> <<>>,
     outcome |-> "returned"]

\* An interceptor that drops a packet whose verification failed.
interceptDecoded_DiscardUnverified(st, packet) ==
    IF packet.verified
    THEN interceptEmit(interceptStore(st, packet), packet, st.listeners)
    ELSE [packets |-> st.packets, errorCount |-> st.errorCount,
          tamperedCount |-> st.tamperedCount + 1, emitted |-> <<>>,
          outcome |-> "returned"]

\* An interceptor that emits first and stores afterwards.
interceptDecoded_EmitFirst(st, packet) ==
    [interceptEmit([interceptStore(st, packet) EXCEPT !.packets = st.packets],
                   packet, st.listeners)
        EXCEPT !.packets = store(st.packets, packet, st.maxPackets)]

interceptDecoded(st, packet) ==
    interceptEmit(interceptStore(st, packet), packet, st.listeners)

\* intercept(buffer, direction) on the interceptor state st: the fields it
\* leaves, the emit calls it made, and whether it returned or raised.
intercept(st, buffer, direction) ==
    IF BufLen(buffer) = 0
    THEN [packets |-> st.packets, errorCount |-> st.errorCount + 1,
          tamperedCount |-> st.tamperedCount, emitted |-> <<>>,
          outcome |-> "returned"]
    ELSE interceptDecoded(
             st,
             [direction |-> direction, raw |-> buffer,
              parsed |-> decode(buffer, st.verifySignatures),
              verified |-> interceptVerified(st, decode(buffer, st.verifySignatures))])

\* stats.totalBytes += p.raw.length over the history.
RECURSIVE totalBytesOf(_)
totalBytesOf(history) ==
    IF history = <<>> THEN 0
    ELSE BufLen(Head(history).raw) + totalBytesOf(Tail(history))

\* A getStats whose byte total leaves out the undecoded entries.
getStats_BytesOfDecoded(history, errors, tampered) ==
    LET decoded == SelectSeq(history, LAMBDA p : p.parsed # NULL)
        total == Len(history)
    IN  [total |-> total,
         byDirection |->
            [send |-> Len(SelectSeq(history, LAMBDA p : p.direction = "send")),
             recv |-> Len(SelectSeq(history, LAMBDA p : p.direction = "recv"))],
         byMethod |->
            [m \in {decoded[i].parsed.header.method : i \in 1..Len(decoded)} |->
                Len(SelectSeq(decoded, LAMBDA p : p.parsed.header.method = m))],
         byStatus |->
            [c \in {decoded[i].parsed.header.statusCode : i \in 1..Len(decoded)} |->
                Len(SelectSeq(decoded, LAMBDA p : p.parsed.header.statusCode = c))],
         totalBytes |-> totalBytesOf(decoded),
         avgPacketSize |->
            IF total > 0
            THEN (2 * totalBytesOf(decoded) + total) \div (2 * total)
            ELSE 0,
         errors |-> errors,
         tamperedPackets |-> tampered]

\* getStats(): total, the per-direction, per-method and per-status counts
\* and the byte total are computed from the retained history; errors and
\* tamperedPackets are the two counters.  byMethod and byStatus have an
\* entry for each method / status code of a retained decoded packet.
\* Math.round of the non-negative average is floor(x + 1/2).
getStats(history, errors, tampered) ==
    LET decoded == SelectSeq(history, LAMBDA p : p.parsed # NULL)
        total == Len(history)
    IN  [total |-> total,
         byDirection |->
            [send |-> Len(SelectSeq(history, LAMBDA p : p.direction = "send")),
             recv |-> Len(SelectSeq(history, LAMBDA p : p.direction = "recv"))],
         byMethod |->
            [m \in {decoded[i].parsed.header.method : i \in 1..Len(decoded)} |->
                Len(SelectSeq(decoded, LAMBDA p : p.parsed.header.method = m))],
         byStatus |->
            [c \in {decoded[i].parsed.header.statusCode : i \in 1..Len(decoded)} |->
                Len(SelectSeq(decoded, LAMBDA p : p.parsed.header.statusCode = c))],
         totalBytes |-> totalBytesOf(history),
         avgPacketSize |->
            IF total > 0
            THEN (2 * totalBytesOf(history) + total) \div (2 * total)
            ELSE 0,
         errors |-> errors,
         tamperedPackets |-> tampered]

\* getRecentPackets(count) with count given: this.packets.slice(-count).
\* Array.prototype.slice(-0) is slice(0): the whole array.
getRecentPackets(history, count) ==
    LET n == Len(history)
        from == IF count > 0 THEN Max(n - count, 0)
                ELSE IF count = 0 THEN 0
                ELSE Min(-count, n)
    IN  SubSeq(history, from + 1, n)

\* getRecentPackets(count = 10)
DEFAULT_RECENT_COUNT == 10

getRecentPacketsOptionalCount(history, count) ==
    getRecentPackets(history,
                     IF count.given THEN count.value ELSE DEFAULT_RECENT_COUNT)

----------------------------------------------------------------------------
(* SpecInterceptor: one PacketInterceptor and its subscribers *)

\* Bounds: intercept calls made, and the largest configured maxPackets.
MaxCalls == 3
MaxCap == 2

\* Buffers handed to intercept: empty, one byte short of a header, and two
\* frames.
B_EMPTY == Buf(<<>>)
B_MSG ==
    BufConcat(Buf(encodeHeader([packetId |-> 1, statusCode |-> 0, method |-> MSG,
                                type |-> 0, bodyLength |-> 0], Buf(<<>>))),
              Buf(<<>>))
B_READ ==
    BufConcat(Buf(encodeHeader([packetId |-> 2, statusCode |-> -100,
                                method |-> READ, type |-> 0, bodyLength |-> 1],
                               Buf(<<9>>))),
              Buf(<<9>>))

B_SHORT == BufferSlice(B_MSG, 0, HEADER_SIZE - 1)

InterceptInputs ==
    { <<B_EMPTY, "recv">>, <<B_SHORT, "recv">>, <<B_MSG, "recv">>,
      <<B_READ, "send">> }

CtorMaxPacketsArgs == {NoArg} \cup {Arg(n) : n \in 0..MaxCap}

\* The constructor's verifySignatures argument: omitted, true or false.
VerifyOmitted == [given |-> FALSE, value |-> FALSE]
CtorVerifySignaturesArgs == {VerifyOmitted, Arg(TRUE), Arg(FALSE)}

\* getRecentPackets' count argument: omitted, or 0 .. MaxCap + 1.
RecentCounts == {NoArg} \cup {Arg(n) : n \in 0..(MaxCap + 1)}

SubscribableEvents == {EvPacket, EvError, EvMethod(MSG)}

NoListeners == [ev \in SubscribableEvents |-> <<>>]

\* The subscriptions of the model: per event no subscriber, or one that
\* returns, or one that raises.
ListenerTables ==
    [SubscribableEvents -> {<<>>} \cup {<<kind>> : kind \in ListenerKinds}]

NoCall == [op |-> "new", buffer |-> B_EMPTY, direction |-> "recv",
           outcome |-> "returned", emitted |-> <<>>, errorsBefore |-> 0,
           tamperedBefore |-> 0, historyBefore |-> <<>>,
           listenersBefore |-> NoListeners,
           count |-> NoArg, result |-> <<>>,
           statsBefore |-> getStats(<<>>, 0, 0), stats |-> getStats(<<>>, 0, 0)]

\* new PacketInterceptor(maxPackets?, verifySignatures?)
InitInterceptor ==
    /\ ctorMaxPackets \in CtorMaxPacketsArgs
    /\ maxPackets = constructorMaxPackets(ctorMaxPackets)
    /\ \E arg \in CtorVerifySignaturesArgs :
          verifySignatures = constructorVerifySignatures(arg)
    /\ packets = <<>>
    /\ errorCount = 0
    /\ tamperedCount = 0
    /\ listeners = NoListeners
    /\ calls = 0
    /\ arrivals = <<>>
    /\ lastCall = NoCall

IdleInterceptor ==
    /\ ctorMaxPackets = NoArg
    /\ maxPackets = constructorMaxPackets(NoArg)
    /\ verifySignatures = constructorVerifySignatures(VerifyOmitted)
    /\ packets = <<>>
    /\ errorCount = 0
    /\ tamperedCount = 0
    /\ listeners = NoListeners
    /\ calls = 0
    /\ arrivals = <<>>
    /\ lastCall = NoCall

InterceptorState ==
    [packets |-> packets, maxPackets |-> maxPackets, errorCount |-> errorCount,
     tamperedCount |-> tamperedCount, verifySignatures |-> verifySignatures,
     listeners |-> listeners]

\* interceptor.intercept(buffer, direction)
Intercept ==
    \E in \in InterceptInputs :
        LET r == intercept(InterceptorState, in[1], in[2])
        IN  /\ calls < MaxCalls
            /\ calls' = calls + 1
            /\ arrivals' = Append(arrivals, in)
            /\ packets' = r.packets
            /\ errorCount' = r.errorCount
            /\ tamperedCount' = r.tamperedCount
            /\ lastCall' = [op |-> "intercept", buffer |-> in[1],
                            direction |-> in[2], outcome |-> r.outcome,
                            emitted |-> r.emitted, errorsBefore |-> errorCount,
                            tamperedBefore |-> tamperedCount,
                            historyBefore |-> packets,
                            listenersBefore |-> listeners,
                            count |-> NoArg, result |-> <<>>,
                            statsBefore |-> getStats(packets, errorCount,
                                                     tamperedCount),
                            stats |-> getStats(r.packets, r.errorCount,
                                               r.tamperedCount)]
            /\ UNCHANGED <<maxPackets, verifySignatures, listeners, ctorMaxPackets>>
            /\ UNCHANGED <<codecVars, hookVars, commandVars>>

\* interceptor.on(ev, listener)
On ==
    \E ev \in SubscribableEvents, kind \in ListenerKinds :
        /\ [listeners EXCEPT ![ev] = Append(@, kind)] \in ListenerTables
        /\ listeners' = [listeners EXCEPT ![ev] = Append(@, kind)]
        /\ lastCall' = [NoCall EXCEPT !.op = "on",
                                      !.stats = getStats(packets, errorCount,
                                                         tamperedCount)]
        /\ UNCHANGED <<packets, maxPackets, errorCount, tamperedCount,
                       verifySignatures, ctorMaxPackets, calls, arrivals>>
        /\ UNCHANGED <<codecVars, hookVars, commandVars>>

\* interceptor.clear()
Clear ==
    /\ packets' = <<>>
    /\ errorCount' = 0
    /\ tamperedCount' = 0
    /\ arrivals' = <<>>
    /\ lastCall' = [NoCall EXCEPT !.op = "clear",
                                  !.errorsBefore = errorCount,
                                  !.tamperedBefore = tamperedCount,
                                  !.listenersBefore = listeners,
                                  !.stats = getStats(packets', errorCount',
                                                     tamperedCount')]
    /\ UNCHANGED <<maxPackets, verifySignatures, listeners, ctorMaxPackets, calls>>
    /\ UNCHANGED <<codecVars, hookVars, commandVars>>

\* A destroy() that only clears.
Destroy_KeepListeners ==
    /\ packets' = <<>>
    /\ errorCount' = 0
    /\ tamperedCount' = 0
    /\ arrivals' = <<>>
    /\ lastCall' = [NoCall EXCEPT !.op = "destroy",
                                  !.errorsBefore = errorCount,
                                  !.tamperedBefore = tamperedCount,
                                  !.listenersBefore = listeners,
                                  !.stats = getStats(packets', errorCount',
                                                     tamperedCount')]
    /\ UNCHANGED <<maxPackets, verifySignatures, listeners, ctorMaxPackets, calls>>
    /\ UNCHANGED <<codecVars, hookVars, commandVars>>

\* interceptor.destroy(): clear(), then removeAllListeners()
Destroy ==
    /\ packets' = <<>>
    /\ errorCount' = 0
    /\ tamperedCount' = 0
    /\ listeners' = NoListeners
    /\ arrivals' = <<>>
    /\ lastCall' = [NoCall EXCEPT !.op = "destroy",
                                  !.errorsBefore = errorCount,
                                  !.tamperedBefore = tamperedCount,
                                  !.listenersBefore = listeners,
                                  !.stats = getStats(packets', errorCount',
                                                     tamperedCount')]
    /\ UNCHANGED <<maxPackets, verifySignatures, ctorMaxPackets, calls>>
    /\ UNCHANGED <<codecVars, hookVars, commandVars>>

\* interceptor.getStats()
GetStats ==
    /\ UNCHANGED <<packets, maxPackets, errorCount, tamperedCount,
                   verifySignatures, listeners, ctorMaxPackets, calls, arrivals>>
    /\ lastCall' = [NoCall EXCEPT !.op = "getStats",
                                  !.errorsBefore = errorCount,
                                  !.tamperedBefore = tamperedCount,
                                  !.historyBefore = packets,
                                  !.listenersBefore = listeners,
                                  !.stats = getStats(packets, errorCount,
                                                     tamperedCount)]
    /\ UNCHANGED <<codecVars, hookVars, commandVars>>

\* interceptor.getRecentPackets(count?)
GetRecentPackets ==
    \E count \in RecentCounts :
        /\ UNCHANGED <<packets, maxPackets, errorCount, tamperedCount,
                       verifySignatures, listeners, ctorMaxPackets, calls,
                       arrivals>>
        /\ lastCall' = [NoCall EXCEPT
                          !.op = "getRecentPackets",
                          !.count = count,
                          !.result = getRecentPacketsOptionalCount(packets, count),
                          !.historyBefore = packets,
                          !.stats = getStats(packets, errorCount, tamperedCount)]
        /\ UNCHANGED <<codecVars, hookVars, commandVars>>

NextInterceptor == Intercept \/ On \/ Clear \/ Destroy

\* The interceptor with its two queries and no subscribers.
NextInterceptorQueries ==
    Intercept \/ Clear \/ Destroy \/ GetStats \/ GetRecentPackets

----------------------------------------------------------------------------
(* SpecInterceptorReentrant: subscribers that call intercept themselves *)

\* A subscriber returns ("ok"), or, when handed the MSG frame, first calls
\* intercept(B_READ, 'send') on the same interceptor and then returns.
ReentrantListenerKinds == {"ok", "reenter"}

ReentrantEvents == {EvPacket, EvMethod(READ)}

\* Bounds: subscribers per event, and intercept calls made from outside.
MaxListeners == 2
MaxOuterCalls == 2

\* No notification made yet: per event, per subscriber, the packets it was
\* handed, each named by its position in the order of this.packets.push.
NoDeliveries == [ev \in ReentrantEvents |-> <<>>]

\* intercept(buffer, direction) and emit(ev, packet) with such subscribers.
\* c holds the fields the call leaves alone (maxPackets, verifySignatures,
\* listeners); st holds packets, errorCount, tamperedCount, the number of
\* pushes made so far and the notifications made so far.  No subscriber
\* raises and decode returns null instead of raising, so the catch block is
\* not entered.
RECURSIVE interceptLive(_, _, _, _)
RECURSIVE emitLive(_, _, _, _, _, _)
emitLive(c, st, ev, pushNo, raw, i) ==
    IF i > Len(ListenersOf(c.listeners, ev)) THEN st
    ELSE LET told == [st EXCEPT !.delivered[ev][i] = Append(@, pushNo)]
             handled == IF c.listeners[ev][i] = "reenter" /\ raw = B_MSG
                        THEN interceptLive(c, told, B_READ, "send")
                        ELSE told
         IN  emitLive(c, handled, ev, pushNo, raw, i + 1)

interceptLiveStored(c, stored, packet) ==
    IF packet.parsed # NULL
    THEN emitLive(c, emitLive(c, stored, EvPacket, stored.pushes, packet.raw, 1),
                  EvMethod(packet.parsed.header.method), stored.pushes,
                  packet.raw, 1)
    ELSE [emitLive(c, stored, EvPacket, stored.pushes, packet.raw, 1)
            EXCEPT !.errorCount = @ + 1]

interceptLiveDecoded(c, st, packet) ==
    interceptLiveStored(
        c,
        [st EXCEPT !.packets = store(@, packet, c.maxPackets),
                   !.tamperedCount = IF packet.verified THEN @ ELSE @ + 1,
                   !.pushes = @ + 1],
        packet)

interceptLive(c, st, buffer, direction) ==
    IF BufLen(buffer) = 0
    THEN [st EXCEPT !.errorCount = @ + 1]
    ELSE interceptLiveDecoded(
             c, st,
             [direction |-> direction, raw |-> buffer,
              parsed |-> decode(buffer, c.verifySignatures),
              verified |-> interceptVerified(c, decode(buffer, c.verifySignatures))])

\* new PacketInterceptor(maxPackets?) with no subscriber and no call made
InitInterceptorReentrant ==
    /\ ctorMaxPackets \in {NoArg, Arg(1)}
    /\ maxPackets = constructorMaxPackets(ctorMaxPackets)
    /\ verifySignatures = constructorVerifySignatures(VerifyOmitted)
    /\ packets = <<>>
    /\ errorCount = 0
    /\ tamperedCount = 0
    /\ listeners = [ev \in ReentrantEvents |-> <<>>]
    /\ calls = 0
    /\ arrivals = <<>>
    /\ lastCall = [op |-> "new", pushes |-> 0, delivered |-> NoDeliveries]

\* interceptor.intercept(buffer, direction), called from outside
InterceptReentrant ==
    \E in \in InterceptInputs :
        LET r == interceptLive([maxPackets |-> maxPackets,
                                verifySignatures |-> verifySignatures,
                                listeners |-> listeners],
                               [packets |-> packets, errorCount |-> errorCount,
                                tamperedCount |-> tamperedCount,
                                pushes |-> lastCall.pushes,
                                delivered |-> lastCall.delivered],
                               in[1], in[2])
        IN  /\ calls < MaxOuterCalls
            /\ calls' = calls + 1
            /\ arrivals' = Append(arrivals, in)
            /\ packets' = r.packets
            /\ errorCount' = r.errorCount
            /\ tamperedCount' = r.tamperedCount
            /\ lastCall' = [op |-> "intercept", pushes |-> r.pushes,
                            delivered |-> r.delivered]
            /\ UNCHANGED <<maxPackets, verifySignatures, listeners, ctorMaxPackets>>
            /\ UNCHANGED <<codecVars, hookVars, commandVars>>

\* interceptor.on(ev, listener), listener of one of the two kinds
OnReentrant ==
    \E ev \in ReentrantEvents, kind \in ReentrantListenerKinds :
        /\ Len(listeners[ev]) < MaxListeners
        /\ listeners' = [listeners EXCEPT ![ev] = Append(@, kind)]
        /\ lastCall' = [lastCall EXCEPT !.op = "on",
                                        !.delivered[ev] = Append(@, <<>>)]
        /\ UNCHANGED <<packets, maxPackets, errorCount, tamperedCount,
                       verifySignatures, ctorMaxPackets, calls, arrivals>>
        /\ UNCHANGED <<codecVars, hookVars, commandVars>>

NextInterceptorReentrant == InterceptReentrant \/ OnReentrant

----------------------------------------------------------------------------
(* ProtocolHookManager *)

\* What a registered callback does when called: return nothing, return a
\* replacement packet (the packet with the callback's id appended to its
\* body), return a replacement with another method, or raise.
CallbackKinds == {"void", "replace", "retarget", "throw"}

Callback(id, kind) == [id |-> id, kind |-> kind]

callbackResult(cb, packet, direction) ==
    CASE cb.kind = "throw" -> Thrown("hook")
      [] cb.kind = "void" -> Returned(UNDEFINED)
      [] cb.kind = "replace" ->
            Returned([packet EXCEPT !.body = Buf(Bytes(@) \o <<cb.id>>)])
      [] cb.kind = "retarget" ->
            Returned([packet EXCEPT
                        !.header.method = IF @ = MSG THEN READ ELSE MSG,
                        !.body = Buf(Bytes(@) \o <<cb.id>>)])

\* The loop without its try/catch: the first exception ends it.
RECURSIVE runHooks_NoCatch(_, _, _, _, _)
runHooks_NoCatch(cbs, i, run, phase, direction) ==
    IF i > Len(cbs) \/ run.escaped THEN run
    ELSE
      LET result == callbackResult(cbs[i], run.packet, direction)
          entry == [id |-> cbs[i].id, phase |-> phase, received |-> run.packet,
                    threw |-> result.threw]
          next == [packet |-> IF ~result.threw /\ result.value # UNDEFINED
                              THEN result.value ELSE run.packet,
                   log |-> Append(run.log, entry),
                   escaped |-> result.threw]
      IN  runHooks_NoCatch(cbs, i + 1, next, phase, direction)

\* The loop with the callbacks' return values dropped.
RECURSIVE runHooks_KeepFirst(_, _, _, _, _)
runHooks_KeepFirst(cbs, i, run, phase, direction) ==
    IF i > Len(cbs) \/ run.escaped THEN run
    ELSE
      LET result == callbackResult(cbs[i], run.packet, direction)
          entry == [id |-> cbs[i].id, phase |-> phase, received |-> run.packet,
                    threw |-> result.threw]
          next == [packet |-> run.packet,
                   log |-> Append(run.log, entry),
                   escaped |-> FALSE]
      IN  runHooks_KeepFirst(cbs, i + 1, next, phase, direction)

\* One pass of "for (const cb of cbs) { try { ... } catch { log } }" from
\* index i on.  run holds the current packet, the log of calls made, and
\* whether an exception left the loop.
RECURSIVE runHooks(_, _, _, _, _)
runHooks(cbs, i, run, phase, direction) ==
    IF i > Len(cbs) THEN run
    ELSE
      LET result == callbackResult(cbs[i], run.packet, direction)
          entry == [id |-> cbs[i].id, phase |-> phase, received |-> run.packet,
                    threw |-> result.threw]
          next == [packet |-> IF ~result.threw /\ result.value # UNDEFINED
                              THEN result.value ELSE run.packet,
                   log |-> Append(run.log, entry),
                   escaped |-> FALSE]
      IN  runHooks(cbs, i + 1, next, phase, direction)

\* this.hooks.get(method): the list, or the empty list standing for undefined
\* (trigger skips the loop either way).
hooksGet(table, method) == IF method \in DOMAIN table THEN table[method] ELSE <<>>

\* trigger run with the method hooks of the packet the global hooks left.
trigger_ReplacementMethod(gHooks, mHooks, packet, direction) ==
    LET afterGlobal == runHooks(gHooks, 1,
                                [packet |-> packet, log |-> <<>>, escaped |-> FALSE],
                                "global", direction)
    IN  runHooks(hooksGet(mHooks, afterGlobal.packet.header.method), 1,
                 afterGlobal, "method", direction)

\* hooks.forEach(hooks => methodHookCount += hooks.length)
RECURSIVE methodHookCount(_, _)
methodHookCount(table, keys) ==
    IF keys = {} THEN 0
    ELSE LET k == CHOOSE x \in keys : TRUE
         IN  Len(table[k]) + methodHookCount(table, keys \ {k})

\* getHookCount()
getHookCount(gHooks, mHooks) ==
    [total |-> Len(gHooks) + methodHookCount(mHooks, DOMAIN mHooks),
     global |-> Len(gHooks),
     methods |-> methodHookCount(mHooks, DOMAIN mHooks)]

\* trigger run with the method hooks first.
trigger_MethodFirst(gHooks, mHooks, packet, direction) ==
    LET afterMethod == runHooks(hooksGet(mHooks, packet.header.method), 1,
                                [packet |-> packet, log |-> <<>>, escaped |-> FALSE],
                                "method", direction)
    IN  runHooks(gHooks, 1, afterMethod, "global", direction)

\* trigger(packet, direction)
trigger(gHooks, mHooks, packet, direction) ==
    LET afterGlobal == runHooks(gHooks, 1,
                                [packet |-> packet, log |-> <<>>, escaped |-> FALSE],
                                "global", direction)
    IN  runHooks(hooksGet(mHooks, packet.header.method), 1, afterGlobal,
                 "method", direction)

----------------------------------------------------------------------------
(* SpecHooks: one ProtocolHookManager *)

\* Bound: callbacks registered over the manager's life.
MaxHooks == 3

HookMethods == {MSG, READ, msg_lower, SYNCDLLINK_X}

P_MSG == decode(B_MSG, FALSE)
P_READ == decode(B_READ, FALSE)
TriggerPackets == {P_MSG, P_READ}
Directions == {"send", "recv"}

\* The empty Map.
NoHooks == [m \in {} |-> <<>>]

NoTrigger == [op |-> "new", packet |-> P_MSG, direction |-> "recv",
              result |-> P_MSG, log |-> <<>>, outcome |-> "returned",
              globalBefore |-> <<>>, methodBefore |-> <<>>,
              method |-> <<>>, hooksBefore |-> NoHooks,
              count |-> getHookCount(<<>>, NoHooks)]

InitHooks ==
    /\ hooks = NoHooks
    /\ globalHooks = <<>>
    /\ nextId = 1
    /\ lastTrigger = NoTrigger

IdleHooks == InitHooks

\* registerMethodHook(method, callback)
RegisterMethodHook ==
    \E method \in HookMethods, kind \in CallbackKinds :
        /\ nextId <= MaxHooks
        /\ IF ~MethodRegexTest(method)
           THEN /\ UNCHANGED <<hooks, globalHooks, nextId>>
                /\ lastTrigger' = [NoTrigger EXCEPT
                                      !.op = "registerMethodHook",
                                      !.outcome = "threw",
                                      !.method = method,
                                      !.globalBefore = globalHooks,
                                      !.hooksBefore = hooks,
                                      !.count = getHookCount(globalHooks', hooks')]
           ELSE /\ hooks' = [m \in DOMAIN hooks \cup {method} |->
                               IF m = method
                               THEN Append(hooksGet(hooks, m), Callback(nextId, kind))
                               ELSE hooks[m]]
                /\ nextId' = nextId + 1
                /\ UNCHANGED globalHooks
                /\ lastTrigger' = [NoTrigger EXCEPT
                                      !.op = "registerMethodHook",
                                      !.method = method,
                                      !.globalBefore = globalHooks,
                                      !.hooksBefore = hooks,
                                      !.count = getHookCount(globalHooks', hooks')]
        /\ UNCHANGED <<codecVars, interceptorVars, commandVars>>

\* registerGlobalHook(callback)
RegisterGlobalHook ==
    \E kind \in CallbackKinds :
        /\ nextId <= MaxHooks
        /\ globalHooks' = Append(globalHooks, Callback(nextId, kind))
        /\ nextId' = nextId + 1
        /\ UNCHANGED hooks
        /\ lastTrigger' = [NoTrigger EXCEPT
                              !.op = "registerGlobalHook",
                              !.globalBefore = globalHooks,
                              !.hooksBefore = hooks,
                              !.count = getHookCount(globalHooks', hooks')]
        /\ UNCHANGED <<codecVars, interceptorVars, commandVars>>

\* trigger(packet, direction)
Trigger ==
    \E packet \in TriggerPackets, direction \in Directions :
        LET run == trigger(globalHooks, hooks, packet, direction)
        IN  /\ lastTrigger' = [op |-> "trigger", packet |-> packet,
                               direction |-> direction, result |-> run.packet,
                               log |-> run.log,
                               outcome |-> IF run.escaped THEN "threw" ELSE "returned",
                               globalBefore |-> globalHooks,
                               methodBefore |-> hooksGet(hooks, packet.header.method),
                               method |-> <<>>, hooksBefore |-> hooks,
                               count |-> getHookCount(globalHooks, hooks)]
            /\ UNCHANGED <<hooks, globalHooks, nextId>>
            /\ UNCHANGED <<codecVars, interceptorVars, commandVars>>

\* hookManager.clear()
HooksClear ==
    /\ hooks' = NoHooks
    /\ globalHooks' = <<>>
    /\ lastTrigger' = [NoTrigger EXCEPT !.op = "clear"]
    /\ UNCHANGED nextId
    /\ UNCHANGED <<codecVars, interceptorVars, commandVars>>

NextHooks == RegisterMethodHook \/ RegisterGlobalHook \/ Trigger \/ HooksClear

----------------------------------------------------------------------------
(* SpecHooksReentrant: callbacks that call back into their own manager *)

\* Bound: callback invocations followed within one trigger call.
MaxHookCalls == 8

\* What a callback does with the manager while it runs (it returns nothing):
\* nothing, registerGlobalHook(a new callback), registerGlobalHook(itself),
\* registerMethodHook(the packet's method, a new callback), or clear().
ReentrantKinds ==
    {"void", "registerGlobal", "registerSelf", "registerMethod", "clear"}

ReentrantMethods == {MSG, READ}

\* this.hooks after registerMethodHook(method, cb)
hooksPush(table, method, cb) ==
    [m \in DOMAIN table \cup {method} |->
        IF m = method THEN Append(hooksGet(table, m), cb) ELSE table[m]]

\* The manager and the running loop after callback cb has run.  st.iter is
\* the array the for...of loop walks; st.aliased says that it is still the
\* array the manager holds (this.globalHooks in the global loop, the Map's
\* entry for the method in the method loop), so that a push to the
\* manager's array lengthens the walk.  clear() empties the Map and gives
\* the manager a new global array; the loop keeps the old one.
callbackEffect(cb, st, phase, method) ==
    CASE cb.kind = "void" -> st
      [] cb.kind = "registerGlobal" ->
            [st EXCEPT !.g = Append(@, Callback(st.nid, "void")),
                       !.nid = @ + 1,
                       !.iter = IF phase = "global" /\ st.aliased
                                THEN Append(@, Callback(st.nid, "void")) ELSE @]
      [] cb.kind = "registerSelf" ->
            [st EXCEPT !.g = Append(@, cb),
                       !.iter = IF phase = "global" /\ st.aliased
                                THEN Append(@, cb) ELSE @]
      [] cb.kind = "registerMethod" ->
            [st EXCEPT !.h = hooksPush(@, method, Callback(st.nid, "void")),
                       !.nid = @ + 1,
                       !.iter = IF phase = "method" /\ st.aliased
                                THEN Append(@, Callback(st.nid, "void")) ELSE @]
      [] cb.kind = "clear" ->
            [st EXCEPT !.g = <<>>, !.h = NoHooks, !.aliased = FALSE]

\* "for (const cb of array) { try { cb(...) } catch ... }" from index st.i
\* on, the array read afresh at every step.  The walk is followed for at
\* most MaxHookCalls invocations; unfinished says that it had not ended.
RECURSIVE runHooksLive(_, _, _)
runHooksLive(st, phase, method) ==
    IF st.i > Len(st.iter) THEN st
    ELSE IF st.calls >= MaxHookCalls THEN [st EXCEPT !.unfinished = TRUE]
    ELSE LET cb == st.iter[st.i]
             called == [st EXCEPT !.i = @ + 1,
                                  !.calls = @ + 1,
                                  !.log = Append(@, [id |-> cb.id,
                                                     phase |-> phase])]
         IN  runHooksLive(callbackEffect(cb, called, phase, method),
                          phase, method)

\* trigger(packet, direction) with such callbacks: the global loop over
\* this.globalHooks, then this.hooks.get(packet.header.method) read after
\* it and walked if defined.
triggerLive(gHooks, mHooks, id, packet) ==
    LET method == packet.header.method
        start == [i |-> 1, iter |-> gHooks, aliased |-> TRUE, g |-> gHooks,
                  h |-> mHooks, nid |-> id, log |-> <<>>, calls |-> 0,
                  unfinished |-> FALSE]
        afterGlobal == runHooksLive(start, "global", method)
    IN  IF afterGlobal.unfinished \/ method \notin DOMAIN afterGlobal.h
        THEN afterGlobal
        ELSE runHooksLive([afterGlobal EXCEPT !.i = 1,
                                              !.iter = afterGlobal.h[method],
                                              !.aliased = TRUE],
                          "method", method)

\* A call that has not returned keeps the (single) thread.
Returned_lastTrigger == lastTrigger.outcome # "unfinished"

\* registerMethodHook(method, callback), callback of a re-entrant kind
RegisterReentrantMethodHook ==
    \E method \in ReentrantMethods, kind \in ReentrantKinds :
        /\ Returned_lastTrigger
        /\ nextId <= MaxHooks
        /\ hooks' = hooksPush(hooks, method, Callback(nextId, kind))
        /\ nextId' = nextId + 1
        /\ UNCHANGED globalHooks
        /\ lastTrigger' = [NoTrigger EXCEPT
                              !.op = "registerMethodHook",
                              !.method = method,
                              !.globalBefore = globalHooks,
                              !.hooksBefore = hooks,
                              !.count = getHookCount(globalHooks', hooks')]
        /\ UNCHANGED <<codecVars, interceptorVars, commandVars>>

\* registerGlobalHook(callback), callback of a re-entrant kind
RegisterReentrantGlobalHook ==
    \E kind \in ReentrantKinds :
        /\ Returned_lastTrigger
        /\ nextId <= MaxHooks
        /\ globalHooks' = Append(globalHooks, Callback(nextId, kind))
        /\ nextId' = nextId + 1
        /\ UNCHANGED hooks
        /\ lastTrigger' = [NoTrigger EXCEPT
                              !.op = "registerGlobalHook",
                              !.globalBefore = globalHooks,
                              !.hooksBefore = hooks,
                              !.count = getHookCount(globalHooks', hooks')]
        /\ UNCHANGED <<codecVars, interceptorVars, commandVars>>

\* trigger(packet, direction) on a manager holding such callbacks
TriggerReentrant ==
    \E packet \in TriggerPackets :
        LET run == triggerLive(globalHooks, hooks, nextId, packet)
        IN  /\ Returned_lastTrigger
            /\ nextId <= MaxHooks + 1
            /\ hooks' = run.h
            /\ globalHooks' = run.g
            /\ nextId' = run.nid
            /\ lastTrigger' = [NoTrigger EXCEPT
                                  !.op = "trigger",
                                  !.packet = packet,
                                  !.result = packet,
                                  !.log = run.log,
                                  !.outcome = IF run.unfinished THEN "unfinished"
                                              ELSE "returned",
                                  !.globalBefore = globalHooks,
                                  !.methodBefore =
                                      hooksGet(hooks, packet.header.method),
                                  !.hooksBefore = hooks,
                                  !.count = getHookCount(globalHooks', hooks')]
            /\ UNCHANGED <<codecVars, interceptorVars, commandVars>>

NextHooksReentrant ==
    RegisterReentrantMethodHook \/ RegisterReentrantGlobalHook \/ TriggerReentrant

----------------------------------------------------------------------------
(* CommandHandler and DatabaseManager.  Strings are sequences of one-
   character strings. *)

\* Config.sanitizeInput: .replace(/[<>'"`;\\]/g, '').trim().slice(0, 255).
\* SecurityManager.sanitizeInput, which the command handler and the
\* database call, is taken to be the same function.
\* The double quote, the backtick and the backslash are written by their
\* code points.
DOUBLE_QUOTE == "U+0022"
BACKTICK == "U+0060"
BACKSLASH == "U+005C"
SANITIZED_CHARS == {"<", ">", "'", DOUBLE_QUOTE, BACKTICK, ";", BACKSLASH}
SANITIZED_MAX_LENGTH == 255

Whitespace == {" "}

RECURSIVE trimStart(_)
trimStart(s) ==
    IF s # <<>> /\ Head(s) \in Whitespace THEN trimStart(Tail(s)) ELSE s

RECURSIVE trimEnd(_)
trimEnd(s) ==
    IF s # <<>> /\ s[Len(s)] \in Whitespace
    THEN trimEnd(SubSeq(s, 1, Len(s) - 1))
    ELSE s

trim(s) == trimEnd(trimStart(s))

sanitizeInput(input) ==
    LET trimmed == trim(SelectSeq(input, LAMBDA c : c \notin SANITIZED_CHARS))
    IN  SubSeq(trimmed, 1, Min(SANITIZED_MAX_LENGTH, Len(trimmed)))

\* text.startsWith(prefix)
startsWith(text, prefix) ==
    Len(text) >= Len(prefix) /\ SubSeq(text, 1, Len(prefix)) = prefix

\* s.split(/ +/)
RECURSIVE splitSpaces(_)
splitSpaces(s) ==
    IF \A i \in 1..Len(s) : s[i] # " " THEN <<s>>
    ELSE LET k == CHOOSE i \in 1..Len(s) :
                      s[i] = " " /\ \A j \in 1..(i - 1) : s[j] # " "
         IN  <<SubSeq(s, 1, k - 1)>>
             \o splitSpaces(trimStart(SubSeq(s, k, Len(s))))

\* args.join(' ')
RECURSIVE joinSpaces(_)
joinSpaces(words) ==
    IF words = <<>> THEN <<>>
    ELSE IF Len(words) = 1 THEN words[1]
    ELSE words[1] \o <<" ">> \o joinSpaces(Tail(words))

\* String.toLowerCase on the letters A-Z.
UpperCase == <<"A", "B", "C", "D", "E", "F", "G", "H", "I", "J", "K", "L", "M",
               "N", "O", "P", "Q", "R", "S", "T", "U", "V", "W", "X", "Y", "Z">>
LowerCase == <<"a", "b", "c", "d", "e", "f", "g", "h", "i", "j", "k", "l", "m",
               "n", "o", "p", "q", "r", "s", "t", "u", "v", "w", "x", "y", "z">>

toLowerCase(s) ==
    [i \in 1..Len(s) |->
        IF \E k \in 1..Len(UpperCase) : UpperCase[k] = s[i]
        THEN LowerCase[CHOOSE k \in 1..Len(UpperCase) : UpperCase[k] = s[i]]
        ELSE s[i]]

PING == <<"p", "i", "n", "g">>
STATUS == <<"s", "t", "a", "t", "u", "s">>
IP == <<"i", "p">>
HELP == <<"h", "e", "l", "p">>
EXPORT == <<"e", "x", "p", "o", "r", "t">>
STATS == <<"s", "t", "a", "t", "s">>
CLEAR == <<"c", "l", "e", "a", "r">>
BAN == <<"b", "a", "n">>
UNBAN == <<"u", "n", "b", "a", "n">>
ADMIN == <<"a", "d", "m", "i", "n">>
SECURITY == <<"s", "e", "c", "u", "r", "i", "t", "y">>
ADD == <<"a", "d", "d">>
REMOVE == <<"r", "e", "m", "o", "v", "e">>
NO_REASON == <<"N", "o", " ", "r", "e", "a", "s", "o", "n", " ",
               "p", "r", "o", "v", "i", "d", "e", "d">>
NICKNAME_ADMIN == <<"A", "d", "m", "i", "n">>

ALLOWED_COMMANDS ==
    <<PING, STATUS, IP, HELP, EXPORT, STATS, CLEAR, BAN, UNBAN, ADMIN, SECURITY>>

\* Array.includes
includes(list, x) == \E i \in 1..Len(list) : list[i] = x

\* SecurityManager.validateCommand(command, allowed): the command is one of
\* the allowed ones.
validateCommand(command, allowed) == includes(allowed, command)

\* The replies sent with channel.sendChat.
R_RATE_LIMITED == "Too many commands. Please wait before trying again."
R_INVALID == "Invalid command. Use !help for available commands."
R_PONG == "!pong"
R_STATUS == "Bot Status"
R_NO_IP == "No IP data collected yet."
R_IPS == "Recent IPs"
R_HELP == "Available Commands"
R_HELP_ADMIN == "Available Commands, Admin Commands"
R_ADMIN_ONLY == "Admin only command"
R_EXPORTED == "Exported data"
R_STATS == "Detailed Statistics"
R_CLEARED == "All collected data has been cleared."
R_BAN_USAGE == "Usage: !ban <userId> [reason]"
R_BANNED == "has been banned."
R_UNBAN_USAGE == "Usage: !unban <userId>"
R_UNBANNED == "has been unbanned."
R_ADMIN_USAGE == "Usage: !admin <add|remove> <userId>"
R_ADMIN_ADDED == "added as admin."
R_ADMIN_REMOVED == "removed from admins."
R_INVALID_ACTION == "Invalid action. Use add or remove."
R_SECURITY == "Security Status"
R_ERROR == "Error executing command"

\* ---- DatabaseManager

\* addAdmin(admin): the list afterwards, and whether the call raised.
addAdmin(list, admin) ==
    IF Len(admin.kakaoId) = 0 THEN [threw |-> TRUE, list |-> list]
    ELSE IF \E i \in 1..Len(list) : list[i].kakaoId = admin.kakaoId
    THEN [threw |-> FALSE, list |-> list]
    ELSE [threw |-> FALSE,
          list |-> Append(list, [kakaoId |-> sanitizeInput(admin.kakaoId),
                                 nickname |-> sanitizeInput(admin.nickname)])]

\* removeAdmin(id)
removeAdmin(list, id) ==
    SelectSeq(list, LAMBDA a : a.kakaoId # sanitizeInput(id))

\* banUser(user)
banUser(list, user) ==
    IF Len(user.kakaoId) = 0 THEN [threw |-> TRUE, list |-> list]
    ELSE IF \E i \in 1..Len(list) : list[i].kakaoId = user.kakaoId
    THEN [threw |-> FALSE, list |-> list]
    ELSE [threw |-> FALSE,
          list |-> Append(list, [kakaoId |-> sanitizeInput(user.kakaoId),
                                 reason |-> sanitizeInput(user.reason),
                                 banType |-> user.banType])]

\* unbanUser(id)
unbanUser(list, id) ==
    SelectSeq(list, LAMBDA u : u.kakaoId # sanitizeInput(id))

\* clearExpiredBans(): permanent bans stay.  Every ban of the model is
\* permanent, so the expiry test of the other bans is never reached.
clearExpiredBans(list) == SelectSeq(list, LAMBDA u : u.banType = "PERMANENT")

\* ---- DataCollector

CollectorLists ==
    {"messages", "contacts", "ip", "locoPackets", "binaryPackets", "protobufData"}

\* collector.clear()
collectorClear(data) == [l \in CollectorLists |-> <<>>]

\* ---- CommandHandler

\* isAdmin(userId): this.adminConfig.kakaoIds.includes(userId)
isAdmin(config, userId) == includes(config.kakaoIds, userId)

\* The outcome of a handler: the three stores, the replies sent, and whether
\* an exception left the handler.
Handled(st, replies) ==
    [admins |-> st.admins, bannedUsers |-> st.bannedUsers,
     collected |-> st.collected, replies |-> replies, threw |-> FALSE]

handlePing(st) == Handled(st, <<R_PONG>>)

handleStatus(st) == Handled(st, <<R_STATUS>>)

handleIP(st) ==
    IF Len(st.collected["ip"]) = 0 THEN Handled(st, <<R_NO_IP>>)
    ELSE Handled(st, <<R_IPS>>)

handleHelp(st, config, senderId) ==
    IF isAdmin(config, senderId) THEN Handled(st, <<R_HELP_ADMIN>>)
    ELSE Handled(st, <<R_HELP>>)

handleExport(st, config, senderId) ==
    IF ~isAdmin(config, senderId) THEN Handled(st, <<R_ADMIN_ONLY>>)
    ELSE Handled(st, <<R_EXPORTED>>)

handleStats(st, config, senderId) ==
    IF ~isAdmin(config, senderId) THEN Handled(st, <<R_ADMIN_ONLY>>)
    ELSE Handled([st EXCEPT !.bannedUsers = clearExpiredBans(@)], <<R_STATS>>)

\* A clear command that any sender may run.
handleClear_Unchecked(st, config, senderId) ==
    Handled([st EXCEPT !.collected = collectorClear(@)], <<R_CLEARED>>)

handleClear(st, config, senderId) ==
    IF ~isAdmin(config, senderId) THEN Handled(st, <<R_ADMIN_ONLY>>)
    ELSE Handled([st EXCEPT !.collected = collectorClear(@)], <<R_CLEARED>>)

handleBanCall(st, call) ==
    IF call.threw THEN [Handled(st, <<>>) EXCEPT !.threw = TRUE]
    ELSE Handled([st EXCEPT !.bannedUsers = call.list], <<R_BANNED>>)

handleBan(st, config, senderId, args) ==
    IF ~isAdmin(config, senderId) THEN Handled(st, <<R_ADMIN_ONLY>>)
    ELSE IF Len(args) < 1 THEN Handled(st, <<R_BAN_USAGE>>)
    ELSE handleBanCall(
             st,
             banUser(st.bannedUsers,
                     [kakaoId |-> sanitizeInput(args[1]),
                      reason |-> sanitizeInput(
                                    IF joinSpaces(Tail(args)) = <<>>
                                    THEN NO_REASON
                                    ELSE joinSpaces(Tail(args))),
                      banType |-> "PERMANENT"]))

handleUnban(st, config, senderId, args) ==
    IF ~isAdmin(config, senderId) THEN Handled(st, <<R_ADMIN_ONLY>>)
    ELSE IF Len(args) < 1 THEN Handled(st, <<R_UNBAN_USAGE>>)
    ELSE Handled([st EXCEPT !.bannedUsers =
                                unbanUser(@, sanitizeInput(args[1]))],
                 <<R_UNBANNED>>)

handleAdminAddCall(st, call) ==
    IF call.threw THEN [Handled(st, <<>>) EXCEPT !.threw = TRUE]
    ELSE Handled([st EXCEPT !.admins = call.list], <<R_ADMIN_ADDED>>)

handleAdmin(st, config, senderId, args) ==
    IF ~isAdmin(config, senderId) THEN Handled(st, <<R_ADMIN_ONLY>>)
    ELSE IF Len(args) < 2 THEN Handled(st, <<R_ADMIN_USAGE>>)
    ELSE IF toLowerCase(args[1]) = ADD
    THEN handleAdminAddCall(
             st, addAdmin(st.admins, [kakaoId |-> sanitizeInput(args[2]),
                                      nickname |-> NICKNAME_ADMIN]))
    ELSE IF toLowerCase(args[1]) = REMOVE
    THEN Handled([st EXCEPT !.admins = removeAdmin(@, sanitizeInput(args[2]))],
                 <<R_ADMIN_REMOVED>>)
    ELSE Handled(st, <<R_INVALID_ACTION>>)

handleSecurity(st, config, senderId) ==
    IF ~isAdmin(config, senderId) THEN Handled(st, <<R_ADMIN_ONLY>>)
    ELSE Handled(st, <<R_SECURITY>>)

\* The switch of handleMessage.
dispatch(st, config, command, senderId, args) ==
    CASE command = PING -> handlePing(st)
      [] command = STATUS -> handleStatus(st)
      [] command = IP -> handleIP(st)
      [] command = HELP -> handleHelp(st, config, senderId)
      [] command = EXPORT -> handleExport(st, config, senderId)
      [] command = STATS -> handleStats(st, config, senderId)
      [] command = CLEAR -> handleClear(st, config, senderId)
      [] command = BAN -> handleBan(st, config, senderId, args)
      [] command = UNBAN -> handleUnban(st, config, senderId, args)
      [] command = ADMIN -> handleAdmin(st, config, senderId, args)
      [] command = SECURITY -> handleSecurity(st, config, senderId)

\* const args = sanitizedText.slice(prefix.length).trim().split(/ +/)
parseArgs(text, prefix) ==
    LET sanitizedText == sanitizeInput(text)
    IN  splitSpaces(trim(SubSeq(sanitizedText, Len(prefix) + 1,
                                Len(sanitizedText))))

\* const command = args.shift()?.toLowerCase()
parseCommand(text, prefix) == toLowerCase(Head(parseArgs(text, prefix)))

\* The try/catch around the switch: a raised exception becomes a reply.
handleMessageTry(st, h) ==
    IF h.threw
    THEN [returned |-> TRUE, admins |-> st.admins, bannedUsers |-> st.bannedUsers,
          collected |-> st.collected, replies |-> <<R_ERROR>>]
    ELSE [returned |-> TRUE, admins |-> h.admins, bannedUsers |-> h.bannedUsers,
          collected |-> h.collected, replies |-> h.replies]

\* handleMessage from "if (!command) return false" on, args being the
\* words of the message after the prefix.
handleMessageParsed(st, config, args, senderId) ==
    IF toLowerCase(Head(args)) = <<>>
    THEN [returned |-> FALSE, admins |-> st.admins, bannedUsers |-> st.bannedUsers,
          collected |-> st.collected, replies |-> <<>>]
    ELSE IF ~validateCommand(toLowerCase(Head(args)), ALLOWED_COMMANDS)
    THEN [returned |-> TRUE, admins |-> st.admins, bannedUsers |-> st.bannedUsers,
          collected |-> st.collected, replies |-> <<R_INVALID>>]
    ELSE handleMessageTry(
             st, dispatch(st, config, toLowerCase(Head(args)), senderId, Tail(args)))

\* handleMessage(text, senderId, ...): what it returns, the replies it
\* sends and the stores it leaves.  allowed is what rateLimiter.isAllowed
\* answered.
handleMessage(st, config, prefix, text, senderId, allowed) ==
    IF ~startsWith(text, prefix)
    THEN [returned |-> FALSE, admins |-> st.admins, bannedUsers |-> st.bannedUsers,
          collected |-> st.collected, replies |-> <<>>]
    ELSE IF ~allowed
    THEN [returned |-> TRUE, admins |-> st.admins, bannedUsers |-> st.bannedUsers,
          collected |-> st.collected, replies |-> <<R_RATE_LIMITED>>]
    ELSE handleMessageParsed(st, config, parseArgs(text, prefix), senderId)

----------------------------------------------------------------------------
(* SpecCommand: one CommandHandler with its DatabaseManager and
   DataCollector *)

\* Bound: entries in the admin list and in the ban list.
MaxEntries == 2

COMMAND_PREFIX == <<"!">>

ID_ROOT == <<"r">>
ID_A == <<"a">>
ID_B == <<"b">>
ID_A_QUOTED == <<"<", "a", ">">>
ID_A_PADDED == <<"a", " ">>
ID_EMPTY == <<>>

\* Identifiers handed to the database directly.
Identifiers == {ID_A, ID_B, ID_A_QUOTED, ID_A_PADDED, ID_EMPTY}

Senders == {ID_ROOT, ID_A}

\* The chat messages of the model.
Texts ==
    { <<"h", "i">>,
      COMMAND_PREFIX,
      COMMAND_PREFIX \o <<"f", "o", "o">>,
      COMMAND_PREFIX \o PING,
      COMMAND_PREFIX \o STATUS,
      COMMAND_PREFIX \o IP,
      COMMAND_PREFIX \o HELP,
      COMMAND_PREFIX \o EXPORT,
      COMMAND_PREFIX \o STATS,
      COMMAND_PREFIX \o CLEAR,
      COMMAND_PREFIX \o <<"C", "l", "e", "a", "r">>,
      COMMAND_PREFIX \o SECURITY,
      COMMAND_PREFIX \o BAN,
      COMMAND_PREFIX \o BAN \o <<" ">> \o ID_A_QUOTED \o <<" ", "x">>,
      COMMAND_PREFIX \o UNBAN,
      COMMAND_PREFIX \o UNBAN \o <<" ">> \o ID_A,
      COMMAND_PREFIX \o ADMIN,
      COMMAND_PREFIX \o ADMIN \o <<" ">> \o ADD \o <<" ">> \o ID_A,
      COMMAND_PREFIX \o ADMIN \o <<" ", "R", "e", "m", "o", "v", "e", " ", " ">>
                     \o ID_A,
      COMMAND_PREFIX \o ADMIN \o <<" ", "d", "r", "o", "p", " ">> \o ID_A }

\* Per user id, whether an admin's last 'admin add' / 'admin remove' for it
\* that was answered with success added or removed it.
NotManaged == [id \in Senders |-> "none"]

NoData == [l \in CollectorLists |-> <<>>]
SomeData == [l \in CollectorLists |-> <<"item">>]

NoMessage == [op |-> "new", text |-> <<>>, senderId |-> <<>>, allowed |-> TRUE,
              arg |-> <<>>, repeated |-> FALSE, threw |-> FALSE,
              returned |-> FALSE, replies |-> <<>>,
              adminsBefore |-> <<>>, bannedBefore |-> <<>>,
              collectedBefore |-> NoData, managedBefore |-> NotManaged]

\* Config.ADMIN_CONFIG holds the ids of ADMIN_IDS; the database and the
\* collector start empty or, for the collector, with data gathered.
InitCommand ==
    /\ adminConfig \in {[kakaoIds |-> <<>>], [kakaoIds |-> <<ID_ROOT>>]}
    /\ admins = <<>>
    /\ bannedUsers = <<>>
    /\ collected \in {NoData, SomeData}
    /\ managed = NotManaged
    /\ lastMessage = NoMessage

IdleCommand ==
    /\ adminConfig = [kakaoIds |-> <<>>]
    /\ admins = <<>>
    /\ bannedUsers = <<>>
    /\ collected = NoData
    /\ managed = NotManaged
    /\ lastMessage = NoMessage

CommandStores ==
    [admins |-> admins, bannedUsers |-> bannedUsers, collected |-> collected]

\* managed after a handleMessage call that sent these replies.
managedAfter(text, replies) ==
    IF replies = <<R_ADMIN_ADDED>>
    THEN [managed EXCEPT ![parseArgs(text, COMMAND_PREFIX)[3]] = "added"]
    ELSE IF replies = <<R_ADMIN_REMOVED>>
    THEN [managed EXCEPT ![parseArgs(text, COMMAND_PREFIX)[3]] = "removed"]
    ELSE managed

\* commandHandler.handleMessage(text, senderId, ...)
HandleMessage ==
    \E text \in Texts, senderId \in Senders, allowed \in BOOLEAN :
        LET r == handleMessage(CommandStores, adminConfig, COMMAND_PREFIX, text,
                               senderId, allowed)
        IN  /\ Len(r.admins) <= MaxEntries
            /\ Len(r.bannedUsers) <= MaxEntries
            /\ admins' = r.admins
            /\ bannedUsers' = r.bannedUsers
            /\ collected' = r.collected
            /\ managed' = managedAfter(text, r.replies)
            /\ lastMessage' = [NoMessage EXCEPT
                                  !.op = "handleMessage",
                                  !.text = text,
                                  !.senderId = senderId,
                                  !.allowed = allowed,
                                  !.returned = r.returned,
                                  !.replies = r.replies,
                                  !.adminsBefore = admins,
                                  !.bannedBefore = bannedUsers,
                                  !.collectedBefore = collected,
                                  !.managedBefore = managed]
            /\ UNCHANGED adminConfig
            /\ UNCHANGED <<codecVars, interceptorVars, hookVars>>

\* What a direct database call leaves in lastMessage.
DatabaseCall(op, id, threw) ==
    [NoMessage EXCEPT !.op = op,
                      !.arg = id,
                      !.repeated = (lastMessage.op = op /\ lastMessage.arg = id),
                      !.threw = threw,
                      !.adminsBefore = admins,
                      !.bannedBefore = bannedUsers,
                      !.collectedBefore = collected,
                      !.managedBefore = managed]

\* db.addAdmin({ kakaoId: id, nickname: 'Admin', ... })
AddAdmin ==
    \E id \in Identifiers :
        LET call == addAdmin(admins, [kakaoId |-> id, nickname |-> NICKNAME_ADMIN])
        IN  /\ Len(call.list) <= MaxEntries
            /\ admins' = call.list
            /\ lastMessage' = DatabaseCall("addAdmin", id, call.threw)
            /\ UNCHANGED <<adminConfig, bannedUsers, collected, managed>>
            /\ UNCHANGED <<codecVars, interceptorVars, hookVars>>

\* db.removeAdmin(id)
RemoveAdmin ==
    \E id \in Identifiers :
        /\ admins' = removeAdmin(admins, id)
        /\ lastMessage' = DatabaseCall("removeAdmin", id, FALSE)
        /\ UNCHANGED <<adminConfig, bannedUsers, collected, managed>>
        /\ UNCHANGED <<codecVars, interceptorVars, hookVars>>

\* db.banUser({ kakaoId: id, reason: 'No reason provided', banType: 'PERMANENT' })
BanUser ==
    \E id \in Identifiers :
        LET call == banUser(bannedUsers, [kakaoId |-> id, reason |-> NO_REASON,
                                          banType |-> "PERMANENT"])
        IN  /\ Len(call.list) <= MaxEntries
            /\ bannedUsers' = call.list
            /\ lastMessage' = DatabaseCall("banUser", id, call.threw)
            /\ UNCHANGED <<adminConfig, admins, collected, managed>>
            /\ UNCHANGED <<codecVars, interceptorVars, hookVars>>

\* db.unbanUser(id)
UnbanUser ==
    \E id \in Identifiers :
        /\ bannedUsers' = unbanUser(bannedUsers, id)
        /\ lastMessage' = DatabaseCall("unbanUser", id, FALSE)
        /\ UNCHANGED <<adminConfig, admins, collected, managed>>
        /\ UNCHANGED <<codecVars, interceptorVars, hookVars>>

NextCommand == HandleMessage

\* The database called directly.
NextDatabase == AddAdmin \/ RemoveAdmin \/ BanUser \/ UnbanUser

----------------------------------------------------------------------------
(* The specifications *)

InitSpecCodec == InitCodec /\ IdleInterceptor /\ IdleHooks /\ IdleCommand
InitSpecInterceptor == IdleCodec /\ InitInterceptor /\ IdleHooks /\ IdleCommand
InitSpecHooks == IdleCodec /\ IdleInterceptor /\ InitHooks /\ IdleCommand

SpecCodec == InitSpecCodec /\ [][NextCodec]_vars

SpecInterceptor == InitSpecInterceptor /\ [][NextInterceptor]_vars

SpecInterceptorQueries == InitSpecInterceptor /\ [][NextInterceptorQueries]_vars

InitSpecInterceptorReentrant ==
    IdleCodec /\ InitInterceptorReentrant /\ IdleHooks /\ IdleCommand

SpecInterceptorReentrant ==
    InitSpecInterceptorReentrant /\ [][NextInterceptorReentrant]_vars

SpecHooks == InitSpecHooks /\ [][NextHooks]_vars

SpecHooksReentrant == InitSpecHooks /\ [][NextHooksReentrant]_vars

InitSpecCommand == IdleCodec /\ IdleInterceptor /\ IdleHooks /\ InitCommand

SpecCommand == InitSpecCommand /\ [][NextCommand]_vars

SpecDatabase == InitSpecCommand /\ [][NextDatabase]_vars

----------------------------------------------------------------------------
(* Claims about the codec, checked under SpecCodec *)

FIFTEEN_MIB == 15 * 1024 * 1024

\* A string of 1 to 11 characters drawn from A-Z and underscore.
IsWireMethod(m) ==
    /\ Len(m) \in 1..11
    /\ \A i \in 1..Len(m) : m[i] \in {65, 66, 67, 68, 69, 70, 71, 72, 73, 74, 75,
                                       76, 77, 78, 79, 80, 81, 82, 83, 84, 85, 86,
                                       87, 88, 89, 90, 95}

\* The round trip's precondition: the header fields fit their wire fields
\* and the body is at most 15 MiB.
RoundTripInput ==
    /\ cOp = "encode"
    /\ IsWireMethod(cHeader.method)
    /\ cHeader.packetId >= 0
    /\ cHeader.statusCode \in -32768..32767
    /\ cHeader.type \in 0..255
    /\ BufLen(cBody) <= FIFTEEN_MIB

\* C1 as stated: for a header within its wire-field ranges and a body of at
\* most 15 MiB, encode returns and decode(encode(header, body)) is a packet
\* whose packetId, statusCode, method, type and bodyLength equal the
\* header's and whose body equals the body.
C1_RoundTripAsStated ==
    RoundTripInput =>
        /\ cEncoded # PENDING => ~cEncoded.threw
        /\ cRound # PENDING =>
              /\ cRound # NULL
              /\ cRound.header = cHeader
              /\ cRound.body = cBody

\* C1 amended: as above, except that the decoded bodyLength is the body's
\* length; it is the header's bodyLength when that is the body's length.
C1_RoundTrip ==
    RoundTripInput =>
        /\ cEncoded # PENDING => ~cEncoded.threw
        /\ cRound # PENDING =>
              /\ cRound # NULL
              /\ cRound.header.packetId = cHeader.packetId
              /\ cRound.header.statusCode = cHeader.statusCode
              /\ cRound.header.method = cHeader.method
              /\ cRound.header.type = cHeader.type
              /\ cRound.header.bodyLength = BufLen(cBody)
              /\ cHeader.bodyLength = BufLen(cBody) => cRound.header = cHeader
              /\ cRound.body = cBody

\* C1's case: an 11-character method, a negative status, a 15 MiB body that
\* does not start with a zero byte, round-tripped.
C1_Witness ==
    /\ RoundTripInput
    /\ cRound # PENDING
    /\ cRound # NULL
    /\ Len(cHeader.method) = 11
    /\ cHeader.statusCode < 0
    /\ BufLen(cBody) = FIFTEEN_MIB
    /\ cBody.pre # <<>>
    /\ cRound.body = cBody

\* The length a buffer of at least 22 bytes declares in bytes 18..21.
DeclaredLength(b) ==
    ByteAt(b, 18) + 256 * ByteAt(b, 19) + 65536 * ByteAt(b, 20)
        + 16777216 * ByteAt(b, 21)

\* The method field of a buffer, bytes 6..16, without its zero bytes.
WireMethod(b) ==
    SelectSeq([i \in 1..11 |-> ByteAt(b, 5 + i)], LAMBDA c : c # 0)

\* A buffer with a valid method whose declared length, at most 15 MiB,
\* exceeds the bytes that follow the header.
TruncatedFrame(b) ==
    /\ BufLen(b) >= 22
    /\ IsWireMethod(WireMethod(b))
    /\ DeclaredLength(b) <= FIFTEEN_MIB
    /\ DeclaredLength(b) > BufLen(b) - 22

\* C8: decode of a truncated frame returns a packet whose body is exactly
\* the bytes buffer[22 .. buffer.length), and the slice it takes ends within
\* the buffer.
C8_TruncatedFrame ==
    (cOp = "decode" /\ cDecoded # PENDING /\ TruncatedFrame(cBuffer)) =>
        /\ cDecoded # NULL
        /\ BufLen(cDecoded.body) = BufLen(cBuffer) - 22
        /\ cDecoded.body = BufferSlice(cBuffer, 22, BufLen(cBuffer))
        /\ safeSliceRange(cBuffer, 22, 22 + DeclaredLength(cBuffer))[2]
              <= BufLen(cBuffer)

\* C8's case: a frame declaring 2 body bytes and carrying 1, decoded.
C8_Witness ==
    /\ cOp = "decode"
    /\ cDecoded # PENDING
    /\ TruncatedFrame(cBuffer)
    /\ DeclaredLength(cBuffer) = 2
    /\ BufLen(cBuffer) = 23
    /\ cDecoded # NULL
    /\ cDecoded.body = Buf(<<ByteAt(cBuffer, 22)>>)
    /\ ByteAt(cBuffer, 22) # 0

\* C10: decode returns null for every buffer of at least 22 bytes whose
\* declared bodyLength is greater than 15 MiB.
C10_OversizedBody ==
    (cOp = "decode" /\ cDecoded # PENDING /\ BufLen(cBuffer) >= 22
        /\ DeclaredLength(cBuffer) > FIFTEEN_MIB) =>
        cDecoded = NULL

\* C10's case: an otherwise valid frame declaring 15 MiB + 1 and carrying
\* that many bytes, decoded to null.
C10_Witness ==
    /\ cOp = "decode"
    /\ cDecoded = NULL
    /\ IsWireMethod(WireMethod(cBuffer))
    /\ DeclaredLength(cBuffer) = FIFTEEN_MIB + 1
    /\ BufLen(cBuffer) = 22 + FIFTEEN_MIB + 1

\* The method field of a buffer, bytes 6..16, with only its trailing zero
\* bytes removed.
TrimmedMethodField(b) == StripZeros([i \in 1..11 |-> ByteAt(b, 5 + i)])

\* C11: decode returns null for every buffer of at least 22 bytes whose
\* method field, after removing only its trailing null bytes, is not a
\* non-empty string of A-Z and underscore; a null byte followed by a
\* non-null byte in the field is such a case.
C11_MethodCharset ==
    (cOp = "decode" /\ cDecoded # PENDING /\ BufLen(cBuffer) >= 22
        /\ ~IsWireMethod(TrimmedMethodField(cBuffer))) =>
        cDecoded = NULL

\* A buffer with a header decode accepts and a non-empty body that the
\* structured parser rejects.
StructuredRejected(b) ==
    /\ BufLen(b) > 22
    /\ IsWireMethod(WireMethod(b))
    /\ DeclaredLength(b) <= FIFTEEN_MIB
    /\ DeclaredLength(b) >= 1
    /\ ~BSONdeserializeAccepts(BufferSlice(b, 22, 22 + DeclaredLength(b)))

\* C12: for a buffer with a valid header and a non-empty body that the
\* structured parser rejects, decode returns a packet, not null, whose body
\* is the body bytes and whose structured data is absent.
C12_StructuredDecodeNonFatal ==
    (cOp = "decode" /\ cDecoded # PENDING /\ StructuredRejected(cBuffer)) =>
        /\ cDecoded # NULL
        /\ BufLen(cDecoded.body) > 0
        /\ cDecoded.body = BufferSlice(cBuffer, 22, 22 + DeclaredLength(cBuffer))
        /\ cDecoded.data = NULL

\* C12's case: a five-byte body 05 05 00 00 00, which is not a BSON
\* document, decoded with the body kept and no structured data.
C12_Witness ==
    /\ cOp = "decode"
    /\ cDecoded # PENDING
    /\ StructuredRejected(cBuffer)
    /\ DeclaredLength(cBuffer) = 5
    /\ cDecoded # NULL
    /\ cDecoded.body = MkBuf(<<5, 5>>, 3)
    /\ cDecoded.data = NULL

\* C13: for a packet p that decode(buffer, true) returned and that has not
\* been modified, verifyPacketSignature(p, p.signature) returns true.
C13_SignatureAcceptsUnmodified ==
    (cOp = "decode" /\ cVerified # PENDING /\ cVerify /\ cPacket = cDecoded
        /\ cSignature = cDecoded.signature) =>
        cVerified.value = TRUE

\* C14: for a signed packet with a non-empty body, after any single body
\* byte has been changed verifyPacketSignature(packet, originalSignature)
\* returns false, the original signature being the one decode attached or
\* the MAC of the original body.
C14_SignatureDetectsTampering ==
    (cOp = "decode" /\ cVerified # PENDING /\ cDecoded.signature # UNDEFINED
        /\ BufLen(cDecoded.body) > 0 /\ cPacket \in TamperedPackets(cDecoded)) =>
        cVerified.value = FALSE

\* C14's case: a signed packet and a signature that verifies on it; with the
\* second body byte changed the verification returned false.
C14_Witness ==
    /\ cOp = "decode"
    /\ cVerified # PENDING
    /\ cDecoded.signature # UNDEFINED
    /\ verifyPacketSignature(cDecoded, cSignature)
    /\ cPacket \in TamperedPackets(cDecoded)
    /\ ByteAt(cPacket.body, 1) # ByteAt(cDecoded.body, 1)
    /\ cVerified.value = FALSE

\* C15: verifyPacketSignature returns false for a packet that carries no
\* signature, whatever signature is supplied.
C15_AbsentSignatureFails ==
    (cOp = "decode" /\ cVerified # PENDING /\ cPacket.signature = UNDEFINED) =>
        cVerified.value = FALSE

\* C15's case: an unsigned, unmodified packet verified against the MAC of
\* its own body.
C15_Witness ==
    /\ cOp = "decode"
    /\ cVerified # PENDING
    /\ cPacket = cDecoded
    /\ cPacket.signature = UNDEFINED
    /\ BufLen(cPacket.body) > 0
    /\ cSignature = generateSignature(cPacket.body)
    /\ cVerified.value = FALSE

\* A non-empty string of A-Z and underscore, of any length.
IsCharsetMethod(m) ==
    /\ Len(m) >= 1
    /\ \A i \in 1..Len(m) : m[i] \in {65, 66, 67, 68, 69, 70, 71, 72, 73, 74, 75,
                                       76, 77, 78, 79, 80, 81, 82, 83, 84, 85, 86,
                                       87, 88, 89, 90, 95}

\* encode's caller broke the contract: body over 15 MiB or invalid method.
ContractViolation ==
    BufLen(cBody) > FIFTEEN_MIB \/ ~IsCharsetMethod(cHeader.method)

\* packetId, statusCode and type fit their wire fields.
InRangeHeader ==
    /\ cHeader.packetId >= 0
    /\ cHeader.statusCode \in -32768..32767
    /\ cHeader.type \in 0..255

\* C25: encode raises, returning no buffer, whenever the body exceeds 15 MiB
\* or the method does not match [A-Z_]+ (the empty method included), and
\* does not raise for an in-range header with a valid method and a body
\* within the limit.
C25_EncodeFailsLoudly ==
    (cOp = "encode" /\ cEncoded # PENDING) =>
        /\ ContractViolation =>
              cEncoded.threw /\ "value" \notin DOMAIN cEncoded
        /\ (~ContractViolation /\ InRangeHeader) =>
              ~cEncoded.threw /\ BufLen(cEncoded.value) >= 22

\* C25's case: a valid 11-character method with a body of 15 MiB + 1
\* bytes: encode raised.
C25_Witness ==
    /\ cOp = "encode"
    /\ cEncoded # PENDING
    /\ IsCharsetMethod(cHeader.method)
    /\ Len(cHeader.method) = 11
    /\ InRangeHeader
    /\ BufLen(cBody) = FIFTEEN_MIB + 1
    /\ cEncoded.threw

\* C26: encode(header, body, true) and encode(header, body, false) end the
\* same way, and for a valid header and body return equal buffers.
C26_SigningKeepsWireBytes ==
    (cOp = "encode" /\ cEncoded # PENDING) =>
        cEncoded = encode(cHeader, cBody, ~cVerify)

\* C26's case: a signed encode of a non-empty body, returned.
C26_Witness ==
    /\ cOp = "encode"
    /\ cEncoded # PENDING
    /\ cVerify
    /\ ~cEncoded.threw
    /\ BufLen(cBody) > 0
    /\ BufLen(cEncoded.value) = 22 + BufLen(cBody)

\* The body handed to the encode call whose outcome cEncoded holds.
EncodedBody == IF cOp = "encode" THEN cBody ELSE cDecoded.body

\* C27: a buffer returned by encode has length 22 + the value in its bytes
\* 18..21, and that value is body.length, whatever header.bodyLength says.
C27_FrameLength ==
    (cEncoded # PENDING /\ ~cEncoded.threw) =>
        /\ BufLen(cEncoded.value) = 22 + DeclaredLength(cEncoded.value)
        /\ DeclaredLength(cEncoded.value) = BufLen(EncodedBody)

\* C27's case: header.bodyLength = 2 with a 15 MiB body.
C27_Witness ==
    /\ cOp = "encode"
    /\ cEncoded # PENDING
    /\ ~cEncoded.threw
    /\ cHeader.bodyLength = 2
    /\ BufLen(cBody) = FIFTEEN_MIB
    /\ DeclaredLength(cEncoded.value) = FIFTEEN_MIB

\* decode returned a packet for cBuffer.
DecodedPacket == cOp = "decode" /\ cDecoded # PENDING /\ cDecoded # NULL

\* C28 as stated: every packet decode returns has body.length equal to
\* header.bodyLength, for buffers shorter or longer than 22 + bodyLength.
C28_BodyLengthAsStated ==
    DecodedPacket => BufLen(cDecoded.body) = cDecoded.header.bodyLength

\* C28 amended: header.bodyLength is the declared length and body.length is
\* the smaller of it and the bytes that follow the header; the two are
\* equal when the buffer has at least 22 + bodyLength bytes.
C28_BodyLength ==
    DecodedPacket =>
        /\ cDecoded.header.bodyLength = DeclaredLength(cBuffer)
        /\ BufLen(cDecoded.body)
              = Min(cDecoded.header.bodyLength, BufLen(cBuffer) - 22)
        /\ BufLen(cBuffer) - 22 >= cDecoded.header.bodyLength =>
              BufLen(cDecoded.body) = cDecoded.header.bodyLength

\* C28's case: a frame declaring 15 MiB and carrying one byte more.
C28_Witness ==
    /\ DecodedPacket
    /\ cDecoded.header.bodyLength = FIFTEEN_MIB
    /\ BufLen(cBuffer) = 22 + FIFTEEN_MIB + 1
    /\ BufLen(cDecoded.body) = FIFTEEN_MIB

\* v clamped into [lo, hi], lo <= hi.
ClampInto(v, lo, hi) == IF v < lo THEN lo ELSE IF v > hi THEN hi ELSE v

\* The bytes b[s .. e) of a short buffer.
BytesBetween(b, s, e) ==
    Buf([i \in 1..(e - s) |-> ByteAt(b, s + i - 1)])

\* C29: safeSlice(buffer, start, end) does not raise and returns the bytes
\* buffer[s .. e), s being start clamped into [0, length] and e being end
\* clamped into [s, length], or length when end is omitted.
C29_SafeSliceClamping ==
    (cOp = "safeSlice" /\ cSliced # PENDING) =>
        LET s == ClampInto(cStart, 0, BufLen(cBuffer))
            e == IF cEnd.given THEN ClampInto(cEnd.value, s, BufLen(cBuffer))
                 ELSE BufLen(cBuffer)
        IN  /\ ~cSliced.threw
            /\ cSliced.value = BytesBetween(cBuffer, s, e)

\* C30: for a buffer of exactly 22 + bodyLength bytes that decode turns into
\* a packet p, encode(p.header, p.body) returns a buffer equal to it.
C30_ReEncodeIdentity ==
    (DecodedPacket /\ cEncoded # PENDING
        /\ BufLen(cBuffer) = 22 + DeclaredLength(cBuffer)) =>
        /\ ~cEncoded.threw
        /\ cEncoded.value = cBuffer

----------------------------------------------------------------------------
(* Claims about the interceptor, checked under SpecInterceptor *)

\* C2 as stated: an interceptor constructed with maxPackets = N, 0 included,
\* never holds more than N entries.
C2_HistoryBound ==
    ctorMaxPackets.given => Len(packets) <= ctorMaxPackets.value

\* The raw buffers and directions of the history, oldest first.
Retained == [i \in 1..Len(packets) |-> <<packets[i].raw, packets[i].direction>>]

\* The last n elements of a sequence of at least n elements.
LastN(q, n) == SubSeq(q, Len(q) - n + 1, Len(q))

NonEmptyArrivals == SelectSeq(arrivals, LAMBDA a : BufLen(a[1]) > 0)

EmittedOf(ev) == SelectSeq(lastCall.emitted, LAMBDA e : e.event = ev)

\* C4 as stated: intercept returns normally whatever the subscribers do, and
\* a fault raised inside it becomes one 'error' event and one error-count
\* increment.
C4_InterceptNeverThrows ==
    lastCall.op = "intercept" =>
        /\ lastCall.outcome = "returned"
        /\ (\E i \in 1..Len(lastCall.emitted) :
                lastCall.emitted[i].threw /\ lastCall.emitted[i].event # EvError) =>
              /\ Len(EmittedOf(EvError)) = 1
              /\ errorCount = lastCall.errorsBefore + 1

\* Every buffer shorter than a header decodes to null.
UndersizedDecodeNull ==
    \A b \in Undersized \cup {B_EMPTY, B_SHORT} : \A v \in BOOLEAN :
        BufLen(b) < 22 /\ decode(b, v) = NULL

\* C9: decode returns null for every buffer shorter than 22 bytes, the empty
\* one included, and one intercept call on such a buffer raises the error
\* count by exactly one.
C9_UndersizedBuffer ==
    /\ UndersizedDecodeNull
    /\ (lastCall.op = "intercept" /\ BufLen(lastCall.buffer) < 22) =>
          /\ errorCount = lastCall.errorsBefore + 1
          /\ \A i \in 1..Len(lastCall.emitted) :
                lastCall.emitted[i].event = EvPacket =>
                    lastCall.emitted[i].payload.parsed = NULL

\* C9's cases: a 21-byte buffer intercepted with no subscriber raising, so
\* that the count comes from the decode failure.
C9_Witness ==
    /\ lastCall.op = "intercept"
    /\ BufLen(lastCall.buffer) = 21
    /\ lastCall.errorsBefore = 1
    /\ errorCount = 2
    /\ Len(lastCall.emitted) = 1
    /\ ~lastCall.emitted[1].threw
    /\ lastCall.emitted[1].invoked = 1

\* What decode made of the last intercepted buffer.
LastParsed == decode(lastCall.buffer, verifySignatures)

\* The last call was an intercept of a buffer that decodes.
InterceptedDecodable ==
    /\ lastCall.op = "intercept"
    /\ BufLen(lastCall.buffer) > 0
    /\ LastParsed # NULL

\* The InterceptedPacket the last intercept call has to build.
LastPacket(verified) ==
    [direction |-> lastCall.direction, raw |-> lastCall.buffer,
     parsed |-> LastParsed, verified |-> verified]

\* The newest entry of the history is packet, and the history grew by one
\* entry up to its limit.
AppendedToHistory(packet) ==
    /\ Len(packets) >= 1
    /\ packets[Len(packets)] = packet
    /\ Len(packets) = Min(Len(lastCall.historyBefore) + 1, maxPackets)

\* C16: with verification enabled, an intercept call of a decodable buffer
\* raises the tamper count and stores verified = false exactly when the
\* attached signature differs from a fresh signature over the packet's
\* bytes; an unmodified buffer is stored with verified = true and leaves
\* the tamper count unchanged.
C16_TamperAccounting ==
    (InterceptedDecodable /\ verifySignatures) =>
        IF LastParsed.signature # CaptureSignature(lastCall.buffer, LastParsed)
        THEN /\ tamperedCount = lastCall.tamperedBefore + 1
             /\ AppendedToHistory(LastPacket(FALSE))
        ELSE /\ tamperedCount = lastCall.tamperedBefore
             /\ AppendedToHistory(LastPacket(TRUE))

\* Verification of the last intercepted buffer's packet fails.
VerificationFails ==
    /\ InterceptedDecodable
    /\ verifySignatures
    /\ LastParsed.signature # UNDEFINED
    /\ ~verifyPacketSignature(LastParsed, LastParsed.signature)

\* The emit calls of the last call for a method-keyed event.
MethodEmissions == SelectSeq(lastCall.emitted, LAMBDA e : e.event.kind = "method")

\* The last call emitted 'packet' once, first, with packet as payload.
PacketEmittedFirst(packet) ==
    /\ Len(lastCall.emitted) >= 1
    /\ lastCall.emitted[1].event = EvPacket
    /\ lastCall.emitted[1].payload = packet
    /\ Len(EmittedOf(EvPacket)) = 1

\* The last call emitted one method-keyed event, second, named by the
\* decoded method, with packet as payload.
MethodEmittedSecond(packet) ==
    /\ Len(lastCall.emitted) >= 2
    /\ lastCall.emitted[2].event = EvMethod(LastParsed.header.method)
    /\ lastCall.emitted[2].payload = packet
    /\ Len(MethodEmissions) = 1

C18_EveryBufferPublished ==
    lastCall.op = "intercept" =>
        /\ Len(EmittedOf(EvPacket)) = 1
        /\ EmittedOf(EvPacket)[1].payload.raw = lastCall.buffer
        /\ LastParsed = NULL => EmittedOf(EvPacket)[1].payload.parsed = NULL

\* The packet is in the history, as its newest entry, when 'packet' is
\* emitted.
StoredBeforePacketEvent ==
    /\ Len(lastCall.emitted) >= 1
    /\ Len(lastCall.emitted[1].history) >= 1
    /\ lastCall.emitted[1].history[Len(lastCall.emitted[1].history)]
          = lastCall.emitted[1].payload

\* No method-keyed event for a buffer whose decode failed.
NoMethodEventOnDecodeFailure ==
    (lastCall.op = "intercept" /\ LastParsed = NULL) => Len(MethodEmissions) = 0

C20_ErrorCountedBeforeEvent ==
    (lastCall.op = "intercept" /\ BufLen(lastCall.buffer) > 0 /\ LastParsed = NULL) =>
        /\ Len(EmittedOf(EvPacket)) = 1
        /\ EmittedOf(EvPacket)[1].payload.parsed = NULL
        /\ EmittedOf(EvPacket)[1].errors = lastCall.errorsBefore + 1

\* C21: an intercept call whose buffer fails decoding leaves the history as
\* it was: nothing appended, nothing evicted.
C21_DecodeFailureNotStored ==
    (lastCall.op = "intercept" /\ LastParsed = NULL) =>
        packets = lastCall.historyBefore

\* The count a byMethod / byStatus table reports for key k.
EntryOf(table, k) == IF k \in DOMAIN table THEN table[k] ELSE 0

\* No counter of getStats is lower in after than in before.
StatsNotDecreased(before, after) ==
    /\ after.total >= before.total
    /\ after.byDirection.send >= before.byDirection.send
    /\ after.byDirection.recv >= before.byDirection.recv
    /\ \A m \in DOMAIN before.byMethod :
          EntryOf(after.byMethod, m) >= before.byMethod[m]
    /\ \A c \in DOMAIN before.byStatus :
          EntryOf(after.byStatus, c) >= before.byStatus[c]
    /\ after.totalBytes >= before.totalBytes
    /\ after.errors >= before.errors
    /\ after.tamperedPackets >= before.tamperedPackets

\* C22: no counter reported by getStats decreases over an intercept call,
\* also when the history is full and evicts.
C22_StatsMonotonic ==
    lastCall.op = "intercept" =>
        StatsNotDecreased(lastCall.statsBefore, lastCall.stats)

\* The arrivals since the last clear whose decode fails, and those whose
\* verification fails.
FailedArrivals ==
    SelectSeq(arrivals, LAMBDA a : decode(a[1], verifySignatures) = NULL)
TamperedArrivals ==
    SelectSeq(arrivals,
              LAMBDA a : /\ verifySignatures
                         /\ decode(a[1], TRUE) # NULL
                         /\ ~verifyPacketSignature(decode(a[1], TRUE),
                                                   decode(a[1], TRUE).signature))

\* The last intercept call evicted the oldest entry.
Evicted ==
    /\ lastCall.op = "intercept"
    /\ BufLen(lastCall.buffer) > 0
    /\ Len(lastCall.historyBefore) = maxPackets

\* C23: an intercept call that evicts changes errorCount and tamperedCount
\* only by what the call itself adds, and getStats reports the two counters,
\* which go on counting every failure since the last clear whether or not
\* its packet is still retained.
C23_CountersSurviveEviction ==
    /\ Evicted =>
          /\ errorCount \in {lastCall.errorsBefore, lastCall.errorsBefore + 1}
          /\ LastParsed # NULL /\ (\A i \in 1..Len(lastCall.emitted) :
                                      ~lastCall.emitted[i].threw) =>
                errorCount = lastCall.errorsBefore
          /\ tamperedCount = lastCall.tamperedBefore
                               + (IF VerificationFails THEN 1 ELSE 0)
    /\ lastCall.stats.errors = errorCount
    /\ lastCall.stats.tamperedPackets = tamperedCount
    /\ errorCount >= Len(FailedArrivals)
    /\ tamperedCount = Len(TamperedArrivals)

\* C23's case: maxPackets = 1; a tampered packet, then an undecodable
\* buffer, then another packet: the first two are gone from the history and
\* still counted.
C23_Witness ==
    /\ Evicted
    /\ maxPackets = 1
    /\ Len(arrivals) = 3
    /\ arrivals[2][1] = B_SHORT
    /\ Len(packets) = 1
    /\ packets[1].raw = B_READ
    /\ lastCall.stats.errors = 1
    /\ lastCall.stats.tamperedPackets = 2
    /\ lastCall.stats.total = 1

\* getStats reports an empty history and zero counters.
StatsCleared(stats) ==
    /\ stats.total = 0
    /\ stats.totalBytes = 0
    /\ stats.errors = 0
    /\ stats.tamperedPackets = 0

\* C24: after clear() the history is empty, getStats reports total,
\* totalBytes, errors and tamperedPackets as 0 and the subscribers are as
\* before; after destroy() the same holds except that no subscriber is left;
\* an intercept call invokes only subscribers attached at the time, hence
\* none of those detached by destroy.
C24_ClearDestroy ==
    /\ lastCall.op = "clear" =>
          /\ packets = <<>>
          /\ StatsCleared(lastCall.stats)
          /\ listeners = lastCall.listenersBefore
    /\ lastCall.op = "destroy" =>
          /\ packets = <<>>
          /\ StatsCleared(lastCall.stats)
          /\ \A ev \in DOMAIN listeners : listeners[ev] = <<>>
    /\ lastCall.op = "intercept" =>
          \A i \in 1..Len(lastCall.emitted) :
              lastCall.emitted[i].invoked
                  <= Len(ListenersOf(listeners, lastCall.emitted[i].event))

\* C24's case: destroy() on an interceptor with failures counted and a
\* subscriber on each event.
C24_Witness ==
    /\ lastCall.op = "destroy"
    /\ lastCall.errorsBefore >= 1
    /\ lastCall.tamperedBefore >= 1
    /\ \A ev \in DOMAIN lastCall.listenersBefore :
          lastCall.listenersBefore[ev] # <<>>
    /\ listeners = NoListeners
    /\ StatsCleared(lastCall.stats)

\* C32: getRecentPackets(count), count >= 0, returns the min(count, length)
\* most recently stored entries in arrival order, the empty list for
\* count = 0, and leaves the history as it was.
C32_RecentPackets ==
    (lastCall.op = "getRecentPackets" /\ lastCall.count.given) =>
        /\ lastCall.result
              = LastN(packets, Min(lastCall.count.value, Len(packets)))
        /\ lastCall.count.value = 0 => lastCall.result = <<>>
        /\ packets = lastCall.historyBefore

\* The sum of the counts of a byMethod / byStatus table.
RECURSIVE SumOver(_, _)
SumOver(table, keys) ==
    IF keys = {} THEN 0
    ELSE LET k == CHOOSE x \in keys : TRUE
         IN  table[k] + SumOver(table, keys \ {k})

\* The sum of the raw lengths of the first n history entries.
RECURSIVE RawBytes(_)
RawBytes(n) == IF n = 0 THEN 0 ELSE RawBytes(n - 1) + BufLen(packets[n].raw)

\* The number of history entries that were decoded.
DecodedEntries == Cardinality({i \in 1..Len(packets) : packets[i].parsed # NULL})

\* C33: what getStats returns in any state is consistent with the history:
\* total = send + recv = history length; the byMethod counts and the
\* byStatus counts both add up to the number of decoded entries, at most
\* total; totalBytes is the sum of the raw lengths; avgPacketSize is 0 for
\* an empty history; and a getStats call changes no field.
C33_StatsConsistent ==
    /\ lastCall.stats.total = Len(packets)
    /\ lastCall.stats.total
          = lastCall.stats.byDirection.send + lastCall.stats.byDirection.recv
    /\ SumOver(lastCall.stats.byMethod, DOMAIN lastCall.stats.byMethod)
          = DecodedEntries
    /\ SumOver(lastCall.stats.byStatus, DOMAIN lastCall.stats.byStatus)
          = DecodedEntries
    /\ DecodedEntries <= lastCall.stats.total
    /\ lastCall.stats.totalBytes = RawBytes(Len(packets))
    /\ lastCall.stats.total = 0 => lastCall.stats.avgPacketSize = 0
    /\ lastCall.op = "getStats" =>
          /\ packets = lastCall.historyBefore
          /\ errorCount = lastCall.errorsBefore
          /\ tamperedCount = lastCall.tamperedBefore
          /\ listeners = lastCall.listenersBefore

\* C33's case: getStats on a history of an undecodable 21-byte buffer
\* received and a 23-byte READ frame sent.
C33_Witness ==
    /\ lastCall.op = "getStats"
    /\ lastCall.stats.total = 2
    /\ lastCall.stats.byDirection.send = 1
    /\ lastCall.stats.byDirection.recv = 1
    /\ lastCall.stats.byMethod = [m \in {READ} |-> 1]
    /\ lastCall.stats.totalBytes = 44
    /\ lastCall.stats.avgPacketSize = 22
    /\ lastCall.stats.errors = 1

\* C36: on an interceptor with verification off, which is what omitting the
\* constructor argument gives, every stored packet has verified = true, no
\* decoded packet carries a signature, and the tamper count is 0.
C36_VerificationDisabled ==
    /\ constructorVerifySignatures(VerifyOmitted) = FALSE
    /\ ~verifySignatures =>
          /\ \A i \in 1..Len(packets) :
                /\ packets[i].verified
                /\ packets[i].parsed # NULL =>
                      packets[i].parsed.signature = UNDEFINED
          /\ tamperedCount = 0
          /\ lastCall.stats.tamperedPackets = 0

\* C36's case: verification off, three intercept calls, two decoded packets
\* in the history.
C36_Witness ==
    /\ ~verifySignatures
    /\ lastCall.op = "intercept"
    /\ lastCall.outcome = "returned"
    /\ calls = 3
    /\ Len(packets) = 3
    /\ DecodedEntries = 2
    /\ tamperedCount = 0

----------------------------------------------------------------------------
(* Claims about the hook pipeline, checked under SpecHooks *)

\* The callbacks registered for the last triggered packet's method.
TriggeredMethodHooks == hooksGet(hooks, lastTrigger.packet.header.method)

\* The chain the last trigger call had to run: global callbacks, then the
\* method's, each list in registration order.
Chain == globalHooks \o TriggeredMethodHooks

Replaces(cb) == cb.kind \in {"replace", "retarget"}

\* The ids of the replacing callbacks of a chain, in chain order: what their
\* transforms append to the body when applied in that order.
Marks(chain) ==
    LET r == SelectSeq(chain, Replaces) IN [i \in 1..Len(r) |-> r[i].id]

\* Ids are handed out in registration order.
InRegistrationOrder(cbs) ==
    \A i, j \in 1..Len(cbs) : i < j => cbs[i].id < cbs[j].id

\* C5: trigger calls every global callback in registration order, then every
\* callback of the packet's method in registration order, and the transforms
\* take effect in that order.
C5_HookOrdering ==
    lastTrigger.op = "trigger" =>
        /\ InRegistrationOrder(globalHooks)
        /\ InRegistrationOrder(TriggeredMethodHooks)
        /\ Len(lastTrigger.log) = Len(Chain)
        /\ \A i \in 1..Len(Chain) :
              /\ lastTrigger.log[i].id = Chain[i].id
              /\ lastTrigger.log[i].phase =
                    IF i <= Len(globalHooks) THEN "global" ELSE "method"
        /\ Bytes(lastTrigger.result.body)
              = Bytes(lastTrigger.packet.body) \o Marks(Chain)

\* C5's case: a method hook registered before a global hook, both
\* replacing; the global one ran first.
C5_Witness ==
    /\ lastTrigger.op = "trigger"
    /\ Len(lastTrigger.log) = 2
    /\ lastTrigger.log[1].phase = "global"
    /\ lastTrigger.log[2].phase = "method"
    /\ lastTrigger.log[1].id > lastTrigger.log[2].id
    /\ Replaces(Chain[1])
    /\ Replaces(Chain[2])
    /\ Bytes(lastTrigger.result.body)
          = Bytes(lastTrigger.packet.body)
                \o <<lastTrigger.log[1].id, lastTrigger.log[2].id>>

\* The packet handed on after the i-th call of the last trigger: the next
\* call's argument, or trigger's result after the last call.
HandedOn(i) ==
    IF i < Len(lastTrigger.log) THEN lastTrigger.log[i + 1].received
    ELSE lastTrigger.result

\* C6: a callback that raises does not make trigger raise, every later
\* callback of the chain is still called, and the packet handed on is the
\* one the failing callback was given.
C6_HookFaultIsolation ==
    lastTrigger.op = "trigger" =>
        /\ lastTrigger.outcome = "returned"
        /\ Len(lastTrigger.log) = Len(Chain)
        /\ \A i \in 1..Len(lastTrigger.log) :
              /\ lastTrigger.log[i].threw <=> Chain[i].kind = "throw"
              /\ lastTrigger.log[i].threw => HandedOn(i) = lastTrigger.log[i].received

\* C6's case: a replacing callback, then a raising one, then another call,
\* which receives the first one's replacement.
C6_Witness ==
    /\ lastTrigger.op = "trigger"
    /\ Len(lastTrigger.log) = 3
    /\ Replaces(Chain[1])
    /\ lastTrigger.log[2].threw
    /\ lastTrigger.log[3].received = lastTrigger.log[2].received
    /\ lastTrigger.log[3].received # lastTrigger.packet
    /\ lastTrigger.outcome = "returned"

\* What the i-th callback of the chain returns for the packet it was given.
Returns(i) ==
    callbackResult(Chain[i], lastTrigger.log[i].received, lastTrigger.direction)

\* C7: each callback receives the current packet: the input packet at
\* first, afterwards the latest replacement returned; a callback returning
\* no value leaves it unchanged; trigger returns the current packet after
\* the last callback, the input packet itself if nothing was replaced.
C7_HookChaining ==
    lastTrigger.op = "trigger" =>
        /\ Len(lastTrigger.log) = Len(Chain)
        /\ Len(Chain) = 0 => lastTrigger.result = lastTrigger.packet
        /\ Len(Chain) > 0 => lastTrigger.log[1].received = lastTrigger.packet
        /\ \A i \in 1..Len(Chain) :
              HandedOn(i) = IF Replaces(Chain[i]) THEN Returns(i).value
                            ELSE lastTrigger.log[i].received
        /\ (\A i \in 1..Len(Chain) : ~Replaces(Chain[i])) =>
              lastTrigger.result = lastTrigger.packet

\* C7's case: a replacement, a callback returning nothing, a second
\* replacement made of the first.
C7_Witness ==
    /\ lastTrigger.op = "trigger"
    /\ Len(Chain) = 3
    /\ Chain[1].kind = "replace"
    /\ Chain[2].kind = "void"
    /\ Chain[3].kind = "replace"
    /\ lastTrigger.log[3].received = Returns(1).value
    /\ lastTrigger.result = Returns(3).value
    /\ Bytes(lastTrigger.result.body)
          = Bytes(lastTrigger.packet.body) \o <<Chain[1].id, Chain[3].id>>

\* C31: registerMethodHook accepts a name only if it can be the method of a
\* decoded packet (1 to 11 characters of A-Z and underscore); any other name
\* is rejected with an error and leaves the registry and getHookCount as they
\* were.
C31_HookKeyValidation ==
    lastTrigger.op = "registerMethodHook" =>
        IF IsWireMethod(lastTrigger.method)
        THEN lastTrigger.outcome = "returned"
        ELSE /\ lastTrigger.outcome = "threw"
             /\ hooks = lastTrigger.hooksBefore
             /\ globalHooks = lastTrigger.globalBefore
             /\ lastTrigger.count
                   = getHookCount(lastTrigger.globalBefore, lastTrigger.hooksBefore)

\* The entries of the last trigger's log made in the method phase.
MethodPhaseLog == SelectSeq(lastTrigger.log, LAMBDA e : e.phase = "method")

\* C34: the method callbacks trigger runs are those registered for the
\* method of the packet passed to trigger, also when a global callback has
\* replaced the packet with one of another method, and the first of them
\* receives the packet the global callbacks left.
C34_MethodHookSelection ==
    lastTrigger.op = "trigger" =>
        /\ Len(MethodPhaseLog) = Len(TriggeredMethodHooks)
        /\ \A i \in 1..Len(MethodPhaseLog) :
              MethodPhaseLog[i].id = TriggeredMethodHooks[i].id
        /\ (Len(MethodPhaseLog) >= 1 /\ Len(globalHooks) >= 1) =>
              MethodPhaseLog[1].received = HandedOn(Len(globalHooks))

\* C34's case: a global callback turns a MSG packet into a READ packet; the
\* callback registered for MSG is called with the READ packet, and READ has a
\* callback of its own that is not called.
C34_Witness ==
    /\ lastTrigger.op = "trigger"
    /\ lastTrigger.packet.header.method = MSG
    /\ Len(globalHooks) = 1
    /\ globalHooks[1].kind = "retarget"
    /\ Len(hooksGet(hooks, MSG)) = 1
    /\ Len(hooksGet(hooks, READ)) = 1
    /\ Len(lastTrigger.log) = 2
    /\ lastTrigger.log[2].id = hooksGet(hooks, MSG)[1].id
    /\ lastTrigger.log[2].received.header.method = READ

----------------------------------------------------------------------------
(* Claims about subscribers that call intercept, checked under
   SpecInterceptorReentrant *)

\* q is strictly increasing.
Increasing(q) == \A i \in 1..Len(q) : \A j \in 1..Len(q) : i < j => q[i] < q[j]

\* C37: every subscriber of 'packet' and of a method-keyed event is handed
\* the packets in the order in which they were pushed onto the history,
\* also when a subscriber calls intercept from inside its handler.
C37_DeliveryOrder ==
    \A ev \in ReentrantEvents :
        \A i \in 1..Len(lastCall.delivered[ev]) :
            Increasing(lastCall.delivered[ev][i])

----------------------------------------------------------------------------
(* Claims about callbacks that call back into the manager, checked under
   SpecHooksReentrant *)

\* How often the callback with this id was invoked by the last trigger call.
Invocations(id) ==
    Cardinality({i \in 1..Len(lastTrigger.log) : lastTrigger.log[i].id = id})

\* The ids of the callbacks registered when the last trigger call started:
\* the global ones and those of the packet's method.
RegisteredAtStart ==
    {lastTrigger.globalBefore[i].id : i \in 1..Len(lastTrigger.globalBefore)}
    \cup {lastTrigger.methodBefore[i].id : i \in 1..Len(lastTrigger.methodBefore)}

\* C35: a trigger call returns, having invoked each callback that was
\* registered when it started exactly once and no callback registered
\* during the call, also when callbacks register hooks or call clear().
C35_TriggerTerminates ==
    lastTrigger.op = "trigger" =>
        /\ lastTrigger.outcome = "returned"
        /\ \A id \in RegisteredAtStart : Invocations(id) = 1
        /\ \A i \in 1..Len(lastTrigger.log) :
              lastTrigger.log[i].id \in RegisteredAtStart

----------------------------------------------------------------------------
(* Claims about the command handler, checked under SpecCommand, and about
   the database, checked under SpecDatabase *)

AdminOnlyCommands == {EXPORT, STATS, CLEAR, BAN, UNBAN, ADMIN, SECURITY}

\* The last call was handleMessage with the prefix and an admin-only command.
AdminOnlyMessage ==
    /\ lastMessage.op = "handleMessage"
    /\ startsWith(lastMessage.text, COMMAND_PREFIX)
    /\ parseCommand(lastMessage.text, COMMAND_PREFIX) \in AdminOnlyCommands

\* C38: an admin-only command from a sender that is not in the admin list
\* leaves the collector's data, the admin list and the ban list as they
\* were, and, once the rate limiter lets it through to the command, is
\* answered with 'Admin only command' and nothing else.
C38_NonAdminInert ==
    (AdminOnlyMessage /\ ~isAdmin(adminConfig, lastMessage.senderId)) =>
        /\ admins = lastMessage.adminsBefore
        /\ bannedUsers = lastMessage.bannedBefore
        /\ collected = lastMessage.collectedBefore
        /\ lastMessage.allowed =>
              /\ lastMessage.replies = <<R_ADMIN_ONLY>>
              /\ lastMessage.returned

\* C38's case: user a, not an admin, sends '!clear' while the collector
\* holds data and the database holds an admin and a ban.
C38_Witness ==
    /\ lastMessage.op = "handleMessage"
    /\ lastMessage.text = COMMAND_PREFIX \o CLEAR
    /\ lastMessage.senderId = ID_A
    /\ ~isAdmin(adminConfig, ID_A)
    /\ lastMessage.allowed
    /\ lastMessage.replies = <<R_ADMIN_ONLY>>
    /\ collected = SomeData
    /\ admins # <<>>
    /\ bannedUsers # <<>>

\* C39: once an admin's 'admin add <userId>' has succeeded, an admin-only
\* command from that userId is carried out, and once 'admin remove
\* <userId>' has succeeded it is refused.
C39_AdminManagement ==
    (AdminOnlyMessage /\ lastMessage.allowed
       /\ lastMessage.senderId \in DOMAIN lastMessage.managedBefore) =>
        /\ lastMessage.managedBefore[lastMessage.senderId] = "added" =>
              lastMessage.replies # <<R_ADMIN_ONLY>>
        /\ lastMessage.managedBefore[lastMessage.senderId] = "removed" =>
              lastMessage.replies = <<R_ADMIN_ONLY>>

\* No two entries of the list have the same kakaoId.
NoDuplicateIds(list) ==
    \A i \in 1..Len(list) : \A j \in 1..Len(list) :
        i # j => list[i].kakaoId # list[j].kakaoId

\* C40: the ban list and the admin list never hold two entries with the
\* same stored kakaoId, and a banUser or addAdmin call repeated with the
\* same argument leaves its list as it was.
C40_NoDuplicates ==
    /\ NoDuplicateIds(admins)
    /\ NoDuplicateIds(bannedUsers)
    /\ (lastMessage.op \in {"banUser", "addAdmin"} /\ lastMessage.repeated) =>
          /\ admins = lastMessage.adminsBefore
          /\ bannedUsers = lastMessage.bannedBefore

====
